---------------------------- MODULE Spec2Model ----------------------------
(***************************************************************************)
(* A model of the rust-raytrace library: ray/shape intersection            *)
(* (shapes.rs), nearest-hit selection (scene.rs), the four materials and   *)
(* the trace driver (raytrace.rs).                                         *)
(*                                                                         *)
(* f64 values are modelled exactly.  A finite value is the number          *)
(*     (a + b*eps + c*eps^2) / d      with eps = 1/EpsDen,                 *)
(* a, b, c integers and d a positive integer, so the ray offset 0.00001    *)
(* of raytrace.rs is carried exactly without leaving the 32-bit integers   *)
(* of the model checker.  NaN, the two infinities and the sign of zero     *)
(* follow IEEE 754.  An operation whose exact result is not of this form   *)
(* (the square root of a non-square, a division by a value with an eps     *)
(* part) has no value: evaluating Unrepresentable stops the check, so no   *)
(* result is ever silently rounded.                                        *)
(***************************************************************************)
EXTENDS Integers, Sequences, FiniteSets, TLC

\* 0.00001 = 1/EpsDen, the offset of every secondary ray's origin.
EpsDen == 100000

---------------------------------------------------------------------------
(* f64 *)

Unrepresentable == CHOOSE x \in {} : TRUE

IAbs(i) == IF i < 0 THEN -i ELSE i

RECURSIVE Gcd(_, _)
Gcd(m, n) == IF n = 0 THEN m ELSE Gcd(n, m % n)

\* Sign of a + b*eps + c*eps^2 for eps = 1/EpsDen.
Sgn3(a, b, c) ==
    IF a # 0
    THEN IF IAbs(b) < EpsDen - 1 /\ IAbs(c) < EpsDen
         THEN (IF a > 0 THEN 1 ELSE -1) ELSE Unrepresentable
    ELSE IF b # 0
    THEN IF IAbs(c) < EpsDen
         THEN (IF b > 0 THEN 1 ELSE -1) ELSE Unrepresentable
    ELSE IF c > 0 THEN 1 ELSE IF c < 0 THEN -1 ELSE 0

NaN == [k |-> "nan", s |-> 1, a |-> 0, b |-> 0, c |-> 0, d |-> 1]
Inf(s) == [k |-> "inf", s |-> s, a |-> 0, b |-> 0, c |-> 0, d |-> 1]
Zero(s) == [k |-> "fin", s |-> s, a |-> 0, b |-> 0, c |-> 0, d |-> 1]

\* The finite value (a + b*eps + c*eps^2)/d in lowest terms, d # 0; zs is the
\* sign given to a zero result.
Reduced(a, b, c, d, g) ==
    [k |-> "fin", s |-> Sgn3(a, b, c) * (IF d < 0 THEN -1 ELSE 1),
     a |-> a \div g, b |-> b \div g, c |-> c \div g, d |-> d \div g]
Fin(a, b, c, d, zs) ==
    IF a = 0 /\ b = 0 /\ c = 0 THEN Zero(zs)
    ELSE Reduced(a, b, c, d,
                 Gcd(Gcd(Gcd(IAbs(d), IAbs(a)), IAbs(b)), IAbs(c))
                   * (IF d < 0 THEN -1 ELSE 1))

\* The literal n/d.
Q(n, d) == Fin(n, 0, 0, d, 1)
F(n) == Fin(n, 0, 0, 1, 1)

IsNaN(x) == x.k = "nan"
IsZero(x) == x.k = "fin" /\ x.a = 0 /\ x.b = 0 /\ x.c = 0

FNeg(x) == IF x.k = "nan" THEN NaN
           ELSE [x EXCEPT !.s = -x.s, !.a = -x.a, !.b = -x.b, !.c = -x.c]

FAbs(x) == IF x.k = "nan" THEN NaN ELSE IF x.s < 0 THEN FNeg(x) ELSE x

FAdd(x, y) ==
    IF x.k = "nan" \/ y.k = "nan" THEN NaN
    ELSE IF x.k = "inf"
    THEN (IF y.k = "inf" /\ y.s # x.s THEN NaN ELSE x)
    ELSE IF y.k = "inf" THEN y
    ELSE Fin(x.a * y.d + y.a * x.d, x.b * y.d + y.b * x.d,
             x.c * y.d + y.c * x.d, x.d * y.d,
             IF x.s < 0 /\ y.s < 0 THEN -1 ELSE 1)

FSub(x, y) == FAdd(x, FNeg(y))

FMul(x, y) ==
    IF x.k = "nan" \/ y.k = "nan" THEN NaN
    ELSE IF x.k = "inf" \/ y.k = "inf"
    THEN (IF IsZero(x) \/ IsZero(y) THEN NaN ELSE Inf(x.s * y.s))
    ELSE IF x.b * y.c + x.c * y.b # 0 \/ x.c * y.c # 0 THEN Unrepresentable
    ELSE Fin(x.a * y.a, x.a * y.b + x.b * y.a,
             x.a * y.c + x.b * y.b + x.c * y.a, x.d * y.d, x.s * y.s)

FDiv(x, y) ==
    IF x.k = "nan" \/ y.k = "nan" THEN NaN
    ELSE IF x.k = "inf"
    THEN (IF y.k = "inf" THEN NaN ELSE Inf(x.s * y.s))
    ELSE IF y.k = "inf" THEN Zero(x.s * y.s)
    ELSE IF IsZero(y)
    THEN (IF IsZero(x) THEN NaN ELSE Inf(x.s * y.s))
    ELSE IF y.b # 0 \/ y.c # 0 THEN Unrepresentable
    ELSE Fin(x.a * y.d, x.b * y.d, x.c * y.d, x.d * y.a, x.s * y.s)

\* Exact integer square root.
ISqrt(n) == CHOOSE r \in 0..n : r * r = n

FSqrt(x) ==
    IF x.k = "nan" THEN NaN
    ELSE IF IsZero(x) THEN x
    ELSE IF x.s < 0 THEN NaN
    ELSE IF x.k = "inf" THEN x
    ELSE IF x.b # 0 \/ x.c # 0 THEN Unrepresentable
    ELSE Fin(ISqrt(x.a), 0, 0, ISqrt(x.d), 1)

\* Comparisons: every comparison with NaN is false, -0 = +0.
FCmp(x, y) ==
    IF x.k = "inf" THEN (IF y.k = "inf" /\ y.s = x.s THEN 0 ELSE x.s)
    ELSE IF y.k = "inf" THEN -y.s
    ELSE Sgn3(x.a * y.d - y.a * x.d, x.b * y.d - y.b * x.d,
              x.c * y.d - y.c * x.d)

FLt(x, y) == ~IsNaN(x) /\ ~IsNaN(y) /\ FCmp(x, y) < 0
FLe(x, y) == ~IsNaN(x) /\ ~IsNaN(y) /\ FCmp(x, y) <= 0
FGt(x, y) == FLt(y, x)
FGe(x, y) == FLe(y, x)
FEq(x, y) == ~IsNaN(x) /\ ~IsNaN(y) /\ FCmp(x, y) = 0

\* x.powf(e) for the exponents the model uses, e a natural number.
RECURSIVE FPow(_, _)
FPow(x, e) == IF e = 0 THEN F(1) ELSE FMul(x, FPow(x, e - 1))

---------------------------------------------------------------------------
(* Vec3 / Pnt3 (nalgebra, over f64) *)

V(x, y, z) == [x |-> x, y |-> y, z |-> z]
\* The vector with the integer components x, y, z.
VI(x, y, z) == V(F(x), F(y), F(z))

VAdd(u, v) == V(FAdd(u.x, v.x), FAdd(u.y, v.y), FAdd(u.z, v.z))
VSub(u, v) == V(FSub(u.x, v.x), FSub(u.y, v.y), FSub(u.z, v.z))
VNeg(u) == V(FNeg(u.x), FNeg(u.y), FNeg(u.z))
VScale(u, k) == V(FMul(u.x, k), FMul(u.y, k), FMul(u.z, k))
VDivS(u, k) == V(FDiv(u.x, k), FDiv(u.y, k), FDiv(u.z, k))
Dot(u, v) == FAdd(FAdd(FMul(u.x, v.x), FMul(u.y, v.y)), FMul(u.z, v.z))
SqNorm(u) == Dot(u, u)
Normalize(u) == VDivS(u, FSqrt(SqNorm(u)))
SqDist(p, q) == SqNorm(VSub(p, q))

---------------------------------------------------------------------------
(* shapes.rs *)

Ray(origin, direction) == [origin |-> origin, direction |-> direction]

\* Ray::cast
Cast(ray, t) == VAdd(ray.origin, VScale(ray.direction, t))

\* Option<IntersectionResult>; t and normal are meaningful only in a hit.
NoHit == [hit |-> FALSE, t |-> NaN, normal |-> V(NaN, NaN, NaN)]
Hit(t, normal) == [hit |-> TRUE, t |-> t, normal |-> normal]

\* A Shape is a Sphere (center, radius) or a Plane (point, normal); p holds
\* the center or the point.
Sphere(center, radius) ==
    [shape |-> "Sphere", p |-> center, radius |-> radius, normal |-> VI(0, 0, 0)]
Plane(point, normal) ==
    [shape |-> "Plane", p |-> point, radius |-> F(0), normal |-> normal]

\* The quadratic a*t^2 + b*t + c of a ray and a sphere.
SphereA(s, ray) == SqNorm(ray.direction)
SphereB(s, ray) == FMul(F(2), Dot(ray.direction, VSub(ray.origin, s.p)))
SphereC(s, ray) ==
    FSub(SqNorm(VSub(ray.origin, s.p)), FMul(s.radius, s.radius))
\* b * b - 4.0 * a * c
DiscriminantOf(a, b, c) == FSub(FMul(b, b), FMul(FMul(F(4), a), c))

\* The two roots: (-b - dsqrt) / (2.0 * a) and (-b + dsqrt) / (2.0 * a).
SmallerRoot(a, b, dsqrt) == FDiv(FSub(FNeg(b), dsqrt), FMul(F(2), a))
LargerRoot(a, b, dsqrt) == FDiv(FAdd(FNeg(b), dsqrt), FMul(F(2), a))

\* Some(IntersectionResult { t: t, normal: (ray.cast(t) - center).normalize() })
SphereHit(s, ray, t) == Hit(t, Normalize(VSub(Cast(ray, t), s.p)))

\* The first of t, t2 that is > 0.0.
FirstPositive(s, ray, t, t2) ==
    IF FGt(t, F(0)) THEN SphereHit(s, ray, t)
    ELSE IF FGt(t2, F(0)) THEN SphereHit(s, ray, t2)
    ELSE NoHit

\* Sphere::intersect with the two roots tried in the other order.
SphereRootsFarFirst(s, ray, a, b, dsqrt) ==
    FirstPositive(s, ray, LargerRoot(a, b, dsqrt), SmallerRoot(a, b, dsqrt))

\* The smaller root first, then the larger one.
SphereRoots(s, ray, a, b, dsqrt) ==
    FirstPositive(s, ray, SmallerRoot(a, b, dsqrt), LargerRoot(a, b, dsqrt))

\* if discriminant > 0.0 { ... } else { None }
SphereSolve(s, ray, a, b, discriminant) ==
    IF FGt(discriminant, F(0))
    THEN SphereRoots(s, ray, a, b, FSqrt(discriminant))
    ELSE NoHit

\* impl Shape for Sphere
SphereIntersect(s, ray) ==
    SphereSolve(s, ray, SphereA(s, ray), SphereB(s, ray),
                DiscriminantOf(SphereA(s, ray), SphereB(s, ray),
                               SphereC(s, ray)))

\* impl Shape for Plane
PlaneIntersect(pl, ray) ==
    LET t == FDiv(Dot(pl.normal, VSub(pl.p, ray.origin)),
                  Dot(pl.normal, ray.direction))
    IN  IF FLe(t, F(0)) THEN NoHit ELSE Hit(t, pl.normal)

\* Shape::intersect, dispatched on the variant.
ShapeIntersect(sh, ray) ==
    IF sh.shape = "Sphere" THEN SphereIntersect(sh, ray)
    ELSE PlaneIntersect(sh, ray)

---------------------------------------------------------------------------
(* color.rs *)

Color(r, g, b) == [r |-> r, g |-> g, b |-> b]
\* The colour with the components r/4, g/4, b/4.
C4th(r, g, b) == Color(Q(r, 4), Q(g, 4), Q(b, 4))
BLACK == Color(F(0), F(0), F(0))

CAdd(c, e) == Color(FAdd(c.r, e.r), FAdd(c.g, e.g), FAdd(c.b, e.b))
CMul(c, e) == Color(FMul(c.r, e.r), FMul(c.g, e.g), FMul(c.b, e.b))
CScale(c, k) == Color(FMul(c.r, k), FMul(c.g, k), FMul(c.b, k))
\* impl Div<f64> for Color
CDivS(c, k) == Color(FDiv(c.r, k), FDiv(c.g, k), FDiv(c.b, k))

\* Color::significance
Significance(c) == FAdd(FAdd(c.r, c.g), c.b)

---------------------------------------------------------------------------
(* scene.rs *)

\* Materials; a field a variant does not have holds a fixed filler.
PhongMaterial(diffuse, specular, exponent, ambient) ==
    [class |-> "Phong", diffuse |-> diffuse, specular |-> specular,
     exponent |-> exponent, ambient |-> ambient, ior |-> F(1), samples |-> 0]
FresnelMaterial(diffuse, specular, exponent, ambient, ior) ==
    [class |-> "Fresnel", diffuse |-> diffuse, specular |-> specular,
     exponent |-> exponent, ambient |-> ambient, ior |-> ior, samples |-> 0]
TransparentMaterial(specular, exponent, ior) ==
    [class |-> "Transparent", diffuse |-> BLACK, specular |-> specular,
     exponent |-> exponent, ambient |-> BLACK, ior |-> ior, samples |-> 0]
IndirectPhongMaterial(diffuse, specular, exponent, ambient, samples) ==
    [class |-> "IndirectPhong", diffuse |-> diffuse, specular |-> specular,
     exponent |-> exponent, ambient |-> ambient, ior |-> F(1),
     samples |-> samples]

Object(bounds, material) == [bounds |-> bounds, material |-> material]

PointLight(location, color) ==
    [model |-> "PointLight", v |-> location, color |-> color]
DirectionalLight(direction, color) ==
    [model |-> "DirectionalLight", v |-> direction, color |-> color]

\* FloatNotNan::new: None for NaN.
FloatNotNanNew(v) == [some |-> ~IsNaN(v), v |-> v]

\* The derived order of Option<FloatNotNan>: None is below every Some, and
\* Some(a) < Some(b) is the order of the floats.
KeyLt(k1, k2) ==
    IF ~k1.some THEN k2.some
    ELSE k2.some /\ FLt(k1.v, k2.v)

\* The per-object results of a ray, in list order.
ShapeResults(objects, ray) ==
    [i \in 1..Len(objects) |-> ShapeIntersect(objects[i].bounds, ray)]

\* Iterator::min_by_key over the hits: the first hit whose key is minimal
\* (a later hit replaces the best only if its key is strictly smaller).
\* Returns the index of the selected object, 0 for None.
RECURSIVE MinByKey(_, _, _)
MinByKey(res, i, best) ==
    IF i > Len(res) THEN best
    ELSE IF ~res[i].hit THEN MinByKey(res, i + 1, best)
    ELSE IF best = 0 THEN MinByKey(res, i + 1, i)
    ELSE IF KeyLt(FloatNotNanNew(res[i].t), FloatNotNanNew(res[best].t))
         THEN MinByKey(res, i + 1, i)
         ELSE MinByKey(res, i + 1, best)

\* Option<SceneIntersectionResult>: obj is the index of the object in the
\* list, 0 for None.
NoSceneHit == [obj |-> 0, t |-> NaN, normal |-> V(NaN, NaN, NaN)]

\* Scene::intersect given the per-object results.
SelectNearest(res) ==
    LET o == MinByKey(res, 1, 0)
    IN  IF o = 0 THEN NoSceneHit
        ELSE [obj |-> o, t |-> res[o].t, normal |-> res[o].normal]

\* Scene::intersect
SceneIntersect(objects, ray) == SelectNearest(ShapeResults(objects, ray))

---------------------------------------------------------------------------
(* raytrace.rs: the materials *)

\* 1.0 / 256.0 / 2.0
MIN_SIGNIFICANCE == FDiv(FDiv(F(1), F(256)), F(2))
MAX_DEPTH == 1000

\* The literal 0.00001.
EPSILON == Fin(0, 1, 0, 1, 1)

clamp_zero(x) == IF FLt(x, F(0)) THEN F(0) ELSE x
clamp_one(x) == IF FGt(x, F(1)) THEN F(1) ELSE x

\* Option<f64>
NoneF == [some |-> FALSE, v |-> NaN]
SomeF(v) == [some |-> TRUE, v |-> v]

\* LightModel::light_dir_and_sq_range_for (scene.rs)
LightDirAndSqRange(light, pt) ==
    IF light.model = "PointLight"
    THEN [ldir |-> Normalize(V(FSub(light.v.x, pt.x), FSub(light.v.y, pt.y),
                               FSub(light.v.z, pt.z))),
          sqrange |-> SomeF(SqDist(light.v, pt))]
    ELSE [ldir |-> VNeg(light.v), sqrange |-> NoneF]

\* A secondary ray: Ray { origin: pt + dir * 0.00001, direction: dir }
OffsetRay(pt, dir) == Ray(VAdd(pt, VScale(dir, EPSILON)), dir)

\* The shadow test of one light: the nearest hit of the shadow ray, and
\* whether it makes the loop `continue`.
InShadow(shadowHit, sqrange) ==
    /\ shadowHit.obj # 0
    /\ IF sqrange.some THEN FLt(FMul(shadowHit.t, shadowHit.t), sqrange.v)
       ELSE TRUE

\* The normal facing the viewer.
FaceNormal(result, ray) ==
    IF FGt(Dot(result.normal, ray.direction), F(0))
    THEN VNeg(result.normal) ELSE result.normal

\* self.diffuse * light.color * clamp_zero(dot(&ldir, &normal))
DiffuseTerm(m, light, ldir, normal) ==
    CScale(CMul(m.diffuse, light.color), clamp_zero(Dot(ldir, normal)))

\* clamp_zero(dot(&normal, &((ldir - ray.direction).normalize()))).powf(exponent)
Highlight(m, ldir, normal, ray) ==
    FPow(clamp_zero(Dot(normal, Normalize(VSub(ldir, ray.direction)))),
         m.exponent)

\* self.specular * light.color [* fresnel] * clamp_zero(...).powf(exponent)
SpecularTerm(m, light, ldir, normal, ray, fresnel) ==
    CScale(IF fresnel.some
           THEN CScale(CMul(m.specular, light.color), fresnel.v)
           ELSE CMul(m.specular, light.color),
           Highlight(m, ldir, normal, ray))

\* What one pass of the light loop did and the colour it added, given the
\* light's direction and range and the hit of the shadow ray.
PassOutcome(m, light, normal, ray, diffuse, specular, fresnel, l, shadowResults, shadowHit) ==
    [queried |-> TRUE, ldir |-> l.ldir, sqrange |-> l.sqrange,
     shadowResults |-> shadowResults, shadowHit |-> shadowHit,
     occluded |-> InShadow(shadowHit, l.sqrange),
     addDiffuse |-> diffuse /\ ~InShadow(shadowHit, l.sqrange),
     diffuseTerm |-> IF diffuse /\ ~InShadow(shadowHit, l.sqrange)
                     THEN DiffuseTerm(m, light, l.ldir, normal) ELSE BLACK,
     addSpecular |-> specular /\ ~InShadow(shadowHit, l.sqrange),
     specularTerm |-> IF specular /\ ~InShadow(shadowHit, l.sqrange)
                      THEN SpecularTerm(m, light, l.ldir, normal, ray, fresnel)
                      ELSE BLACK]

\* scene.intersect of the shadow ray, given the per-object results.
ShadowTest(m, light, normal, ray, diffuse, specular, fresnel, l, shadowResults) ==
    PassOutcome(m, light, normal, ray, diffuse, specular, fresnel, l,
                shadowResults, SelectNearest(shadowResults))

\* The shadow ray of one light: from pt offset along ldir.
ShadowRay(objects, m, light, pt, normal, ray, diffuse, specular, fresnel, l) ==
    ShadowTest(m, light, normal, ray, diffuse, specular, fresnel, l,
               ShapeResults(objects, OffsetRay(pt, l.ldir)))

\* One pass of the body of `for light in &scene.lights`, entered with the
\* guard of the loop body true.  fresnel is the factor of the specular term
\* (none for the Phong materials).
LightPass(objects, m, light, pt, normal, ray, diffuse, specular, fresnel) ==
    ShadowRay(objects, m, light, pt, normal, ray, diffuse, specular, fresnel,
              LightDirAndSqRange(light, pt))

\* A pass whose guard is false: the light is not queried.
NoPass ==
    [queried |-> FALSE, ldir |-> V(NaN, NaN, NaN), sqrange |-> NoneF,
     shadowResults |-> << >>, shadowHit |-> NoSceneHit, occluded |-> FALSE,
     addDiffuse |-> FALSE, diffuseTerm |-> BLACK,
     addSpecular |-> FALSE, specularTerm |-> BLACK]

\* The passes of the light loop, one per light in list order.
LightLoop(scene, m, pt, normal, ray, active, diffuse, specular, fresnel) ==
    [i \in 1..Len(scene.lights) |->
        IF active
        THEN LightPass(scene.objects, m, scene.lights[i], pt, normal, ray,
                       diffuse, specular, fresnel)
        ELSE NoPass]

\* res after the passes i..Len(passes): res = res + diffuse term, then
\* res = res + specular term, for each light that was not skipped.
RECURSIVE Accumulate(_, _, _)
Accumulate(passes, i, res) ==
    IF i > Len(passes) THEN res
    ELSE LET p == passes[i]
             r1 == IF p.addDiffuse THEN CAdd(res, p.diffuseTerm) ELSE res
             r2 == IF p.addSpecular THEN CAdd(r1, p.specularTerm) ELSE r1
         IN  Accumulate(passes, i + 1, r2)

\* A recursive ray_color call a material issues.  depth = NoDepth when the
\* call site passes no depth argument.
NoDepth == -1
Call(branch, ray, significance, depth) ==
    [branch |-> branch, ray |-> ray, significance |-> significance,
     depth |-> depth]

\* What one Material::color invocation does before its recursive calls
\* return: the colour accumulated from the ambient term and the light loop,
\* the light passes, and the recursive calls it issues, in order.
Shaded(res, passes, calls, fresnel) ==
    [truncated |-> FALSE, res |-> res, passes |-> passes, calls |-> calls,
     fresnel |-> fresnel]
\* if depth > MAX_DEPTH {return res}
Truncated(res) ==
    [truncated |-> TRUE, res |-> res, passes |-> << >>, calls |-> << >>,
     fresnel |-> NoneF]

\* d - normal * (2.0 * dot(&d, &normal))
Reflect(d, normal) == VSub(d, VScale(normal, FMul(F(2), Dot(d, normal))))

\* colour.significance() * significance > MIN_SIGNIFICANCE
Significant(colour, significance) ==
    FGt(FMul(Significance(colour), significance), MIN_SIGNIFICANCE)

\* self.specular.significance() * fresnel * significance > MIN_SIGNIFICANCE
SignificantFresnel(colour, fresnel, significance) ==
    FGt(FMul(FMul(Significance(colour), fresnel), significance),
        MIN_SIGNIFICANCE)

\* PhongMaterial::color from the end of its light loop: the reflected ray.
PhongReflect(m, ray, significance, depth, pt, normal, specular, passes) ==
    Shaded(Accumulate(passes, 1, m.ambient), passes,
           IF specular
           THEN << Call("reflect",
                        OffsetRay(pt, Reflect(ray.direction, normal)),
                        FMul(significance, Significance(m.specular)),
                        depth + 1) >>
           ELSE << >>,
           NoneF)

\* PhongMaterial::color: its light loop.
PhongLights(m, scene, ray, significance, depth, pt, normal, diffuse, specular) ==
    PhongReflect(m, ray, significance, depth, pt, normal, specular,
                 LightLoop(scene, m, pt, normal, ray, diffuse \/ specular,
                           diffuse, specular, NoneF))

\* PhongMaterial::color after its depth test.
PhongShaded(m, scene, result, ray, significance, depth) ==
    PhongLights(m, scene, ray, significance, depth, Cast(ray, result.t),
                FaceNormal(result, ray), Significant(m.diffuse, significance),
                Significant(m.specular, significance))

\* PhongMaterial::color with the depth test one level late.
PhongColorLate(m, scene, result, ray, significance, depth) ==
    IF depth > MAX_DEPTH + 1 THEN Truncated(m.ambient)
    ELSE PhongShaded(m, scene, result, ray, significance, depth)

\* impl Material for PhongMaterial
PhongColor(m, scene, result, ray, significance, depth) ==
    IF depth > MAX_DEPTH THEN Truncated(m.ambient)
    ELSE PhongShaded(m, scene, result, ray, significance, depth)

\* One pair of draws of the indirect-lighting loop: r1 from y_range and
\* the cosine and sine of r2 from ang_range.
Draw(r1, cosPhi, sinPhi) == [r1 |-> r1, cos |-> cosPhi, sin |-> sinPhi]

\* The direction of the random ray of one draw.
IndirectDir(dr, normal) ==
    LET sin_theta == FSub(F(1), FMul(dr.r1, dr.r1))
        d == V(FMul(sin_theta, dr.cos), dr.r1, FMul(sin_theta, dr.sin))
    IN  IF FGe(Dot(d, normal), F(0)) THEN d ELSE VNeg(d)

\* IndirectPhongMaterial::color from the end of its direct lighting: the
\* random rays; draws[k] is drawn by the k-th pass of
\* `for _ in 0..self.samples`.
IndirectRays(m, significance, depth, pt, normal, active, passes, draws) ==
    Shaded(Accumulate(passes, 1, m.ambient), passes,
           IF active
           THEN [k \in 1..m.samples |->
                   Call("indirect",
                        OffsetRay(pt, IndirectDir(draws[k], normal)),
                        significance, depth + 1)]
           ELSE << >>,
           NoneF)

\* IndirectPhongMaterial::color: its direct lighting.
IndirectLights(m, scene, ray, significance, depth, pt, normal, diffuse, specular, draws) ==
    IndirectRays(m, significance, depth, pt, normal, diffuse \/ specular,
                 LightLoop(scene, m, pt, normal, ray, diffuse \/ specular,
                           diffuse, specular, NoneF),
                 draws)

\* impl Material for IndirectPhongMaterial
IndirectPhongColor(m, scene, result, ray, significance, depth, draws) ==
    IF depth > MAX_DEPTH THEN Truncated(m.ambient)
    ELSE IndirectLights(m, scene, ray, significance, depth,
                        Cast(ray, result.t), FaceNormal(result, ray),
                        Significant(m.diffuse, significance),
                        Significant(m.specular, significance), draws)

\* The Schlick approximation, as both Fresnel materials compute it.
Schlick(ior, omcos) ==
    LET r0a == FDiv(FSub(ior, F(1)), FAdd(ior, F(1)))
        r0 == FMul(r0a, r0a)
        omcos2 == FMul(omcos, omcos)
    IN  clamp_one(FAdd(r0, FMul(FMul(FMul(FSub(F(1), r0), omcos2), omcos2),
                                omcos)))

\* FresnelMaterial::color from the end of its light loop: the reflected ray.
FresnelReflect(m, ray, significance, depth, pt, normal, fresnel, specular, passes) ==
    Shaded(Accumulate(passes, 1, m.ambient), passes,
           IF specular
           THEN << Call("reflect",
                        OffsetRay(pt, Reflect(ray.direction, normal)),
                        FMul(FMul(fresnel, significance),
                             Significance(m.specular)),
                        depth + 1) >>
           ELSE << >>,
           SomeF(fresnel))

\* FresnelMaterial::color: diffuse, specular and its light loop.
FresnelLights(m, scene, ray, significance, depth, pt, normal, fresnel) ==
    FresnelReflect(m, ray, significance, depth, pt, normal, fresnel,
                   SignificantFresnel(m.specular, fresnel, significance),
                   LightLoop(scene, m, pt, normal, ray,
                             Significant(m.diffuse, significance)
                             \/ SignificantFresnel(m.specular, fresnel,
                                                   significance),
                             Significant(m.diffuse, significance),
                             SignificantFresnel(m.specular, fresnel,
                                                significance),
                             SomeF(fresnel)))

\* impl Material for FresnelMaterial
FresnelColor(m, scene, result, ray, significance, depth) ==
    IF depth > MAX_DEPTH THEN Truncated(m.ambient)
    ELSE FresnelLights(m, scene, ray, significance, depth,
                       Cast(ray, result.t), FaceNormal(result, ray),
                       Schlick(m.ior,
                               FSub(F(1), FAbs(Dot(result.normal,
                                                   ray.direction)))))

\* if sin2 < 1.0 { Some(ray.direction * n - normal * (n * nd.abs() + cos)) }
\* else { None }, an Option<Vec3>
RefractSin(nd, normal, ray, n, sin2) ==
    IF FLt(sin2, F(1))
    THEN [some |-> TRUE,
          v |-> VSub(VScale(ray.direction, n),
                     VScale(normal, FAdd(FMul(n, FAbs(nd)),
                                         FSqrt(FSub(F(1), sin2)))))]
    ELSE [some |-> FALSE, v |-> V(NaN, NaN, NaN)]

\* sin2 = n * n * (1.0 - nd * nd)
RefractIndex(nd, normal, ray, n) ==
    RefractSin(nd, normal, ray, n,
               FMul(FMul(n, n), FSub(F(1), FMul(nd, nd))))

\* The refraction vector of TransparentMaterial::color.
Refract(ior, nd, normal, ray) ==
    RefractIndex(nd, normal, ray,
                 IF FGt(nd, F(0)) THEN ior ELSE FDiv(F(1), ior))

\* omcos of TransparentMaterial::color
OneMinusCos(nd, normal, refract) ==
    IF FGt(nd, F(0))
    THEN IF refract.some THEN FSub(F(1), Dot(normal, refract.v)) ELSE F(0)
    ELSE FSub(F(1), FAbs(nd))

\* TransparentMaterial::color from the end of its light loop: the reflected
\* ray, whose call passes no depth, and the refracted ray.
TransparentRays(m, ray, significance, depth, pt, normal, refract, fresnel, specular, passes) ==
    Shaded(Accumulate(passes, 1, BLACK), passes,
           (IF specular
            THEN << Call("reflect",
                         OffsetRay(pt, VSub(ray.direction,
                                            VScale(normal,
                                                   FMul(F(2),
                                                        Dot(normal,
                                                            ray.direction))))),
                         FMul(FMul(fresnel, significance),
                              Significance(m.specular)),
                         NoDepth) >>
            ELSE << >>)
           \o
           (IF FLt(fresnel, F(1)) /\ refract.some
            THEN << Call("refract", OffsetRay(pt, Normalize(refract.v)),
                         FMul(clamp_one(FSub(F(1), fresnel)), significance),
                         depth + 1) >>
            ELSE << >>),
           SomeF(fresnel))

\* TransparentMaterial::color: specular and its light loop.
TransparentLights(m, scene, ray, significance, depth, pt, normal, refract, fresnel) ==
    TransparentRays(m, ray, significance, depth, pt, normal, refract, fresnel,
                    SignificantFresnel(m.specular, fresnel, significance),
                    LightLoop(scene, m, pt, normal, ray,
                              SignificantFresnel(m.specular, fresnel,
                                                 significance),
                              FALSE,
                              SignificantFresnel(m.specular, fresnel,
                                                 significance),
                              SomeF(fresnel)))

\* TransparentMaterial::color: fresnel, given the refraction vector.
TransparentFresnel(m, scene, ray, significance, depth, pt, nd, normal, refract) ==
    TransparentLights(m, scene, ray, significance, depth, pt, normal, refract,
                      IF refract.some
                      THEN Schlick(m.ior, OneMinusCos(nd, normal, refract))
                      ELSE F(1))

\* TransparentMaterial::color: the refraction vector, given nd and normal.
TransparentRefract(m, scene, ray, significance, depth, pt, nd, normal) ==
    TransparentFresnel(m, scene, ray, significance, depth, pt, nd, normal,
                       Refract(m.ior, nd, normal, ray))

\* impl Material for TransparentMaterial
TransparentColor(m, scene, result, ray, significance, depth) ==
    IF depth > MAX_DEPTH THEN Truncated(BLACK)
    ELSE TransparentRefract(m, scene, ray, significance, depth,
                            Cast(ray, result.t),
                            Dot(result.normal, ray.direction),
                            FaceNormal(result, ray))

\* result.object.material.color(...)
MaterialColor(m, scene, result, ray, significance, depth, draws) ==
    CASE m.class = "Phong" ->
           PhongColor(m, scene, result, ray, significance, depth)
      [] m.class = "IndirectPhong" ->
           IndirectPhongColor(m, scene, result, ray, significance, depth,
                              draws)
      [] m.class = "Fresnel" ->
           FresnelColor(m, scene, result, ray, significance, depth)
      [] m.class = "Transparent" ->
           TransparentColor(m, scene, result, ray, significance, depth)

---------------------------------------------------------------------------
(* camera.rs *)

Cross(u, w) ==
    V(FSub(FMul(u.y, w.z), FMul(u.z, w.y)),
      FSub(FMul(u.z, w.x), FMul(u.x, w.z)),
      FSub(FMul(u.x, w.y), FMul(u.y, w.x)))

\* Mat3 * Vec3, the matrix given by its rows.
MatMul(m, u) == V(Dot(m[1], u), Dot(m[2], u), Dot(m[3], u))

\* The camera of SimplePerspectiveCamera::new, given its basis.
CameraOf(position, u, v, w) ==
    [class |-> "SimplePerspective", position |-> position,
     matrix |-> << V(u.x, v.x, w.x), V(u.y, v.y, w.y), V(u.z, v.z, w.z) >>]

\* v = cross(&u, look).normalize(); w = look.normalize() * im_dist
CameraBasis(position, look, im_dist, u) ==
    CameraOf(position, u, Normalize(Cross(u, look)),
             VScale(Normalize(look), im_dist))

\* SimplePerspectiveCamera::new
SimplePerspectiveCamera(position, look, up, im_dist) ==
    CameraBasis(position, look, im_dist, Normalize(Cross(look, up)))

\* Camera::project for SimplePerspectiveCamera; pos is a Pnt2.
Project(camera, pos) ==
    Ray(camera.position,
        Normalize(MatMul(camera.matrix, V(pos.x, pos.y, F(1)))))

\* DepthOfFieldCamera::new; samples is any u32.
DepthOfFieldCamera(camera, focus, aperture, samples) ==
    [class |-> "DepthOfField", camera |-> camera, focus |-> focus,
     aperture |-> aperture, samples |-> samples,
     im_dist |-> FSqrt(SqNorm(MatMul(camera.matrix, VI(0, 0, 1))))]

\* The ray of DepthOfFieldCamera::project: from the point orig of the lens
\* toward the focal point fp.
LensRay(orig, fp) == Ray(orig, Normalize(VSub(fp, orig)))

\* Camera::project for DepthOfFieldCamera, given dir.  The draw dr holds the
\* cosine and sine of theta, drawn from ang_range, and r2, drawn from
\* Closed01 (in its field r1).
LensProject(c, dir, dr) ==
    LensRay(VAdd(VAdd(c.camera.position, dir),
                 MatMul(c.camera.matrix,
                        V(FMul(dr.cos, FMul(FSqrt(dr.r1), c.aperture)),
                          FMul(dr.sin, FMul(FSqrt(dr.r1), c.aperture)),
                          F(0)))),
            VAdd(c.camera.position, VScale(dir, FDiv(c.focus, c.im_dist))))

\* Camera::project, by the class of the camera; the SimplePerspectiveCamera
\* ignores its rng.
CameraProject(camera, pos, dr) ==
    IF camera.class = "DepthOfField"
    THEN LensProject(camera,
                     MatMul(camera.camera.matrix, V(pos.x, pos.y, F(1))), dr)
    ELSE Project(camera, pos)

\* Camera::samples if DepthOfFieldCamera did not override the default.
SamplesDefault(camera) == 1

\* Camera::samples: the default of the trait for SimplePerspectiveCamera,
\* the field for DepthOfFieldCamera.
Samples(camera) ==
    IF camera.class = "DepthOfField" THEN camera.samples ELSE 1

---------------------------------------------------------------------------
(* raytrace.rs: backgrounds, ray_color and raytrace *)

SolidColorBackground(color) == [class |-> "SolidColor", color |-> color]

\* impl Background for SolidColorBackground
BackgroundColor(background, r) == background.color

Scene(objects, lights, camera, background) ==
    [objects |-> objects, lights |-> lights, camera |-> camera,
     background |-> background]

\* ray_color from its entry to the colour it returns.

\* f64::consts::FRAC_1_PI, to two digits.
FRAC_1_PI == Q(7, 22)

\* The draws a Material::color call makes when each pass of its loop draws
\* dr: one pair per pass for IndirectPhongMaterial, none for the others.
DrawsOf(m, dr) ==
    IF m.class = "IndirectPhong" THEN [j \in 1..m.samples |-> dr] ELSE << >>

\* res after the recursive call `call` of a Material::color call returned
\* colour: lines 61, 163, 212 and 220, and 111-116 for the random ray drawn
\* as dr, where the specular term is taken between dir and the direction of
\* the new ray, which is dir.
Returned(m, normal, fresnel, significance, dr, call, res, colour) ==
    CASE m.class = "Phong" -> CAdd(res, CMul(m.specular, colour))
      [] m.class = "Fresnel" \/ (m.class = "Transparent" /\ call.branch = "reflect") ->
           CAdd(res, CScale(CMul(m.specular, colour), fresnel.v))
      [] m.class = "Transparent" /\ call.branch = "refract" ->
           CAdd(res, CScale(colour, clamp_one(FSub(F(1), fresnel.v))))
      [] m.class = "IndirectPhong" ->
           LET fac == FMul(FMul(F(m.samples), Q(1, 2)), FRAC_1_PI)
               r1 == IF Significant(m.diffuse, significance)
                     THEN CAdd(res, CDivS(CScale(CMul(m.diffuse, colour),
                                                 dr.r1), fac))
                     ELSE res
           IN  IF Significant(m.specular, significance)
               THEN CAdd(r1, CDivS(CScale(CMul(m.specular, colour),
                                          FPow(clamp_zero(Dot(normal,
                                                   Normalize(VSub(call.ray.direction,
                                                                  call.ray.direction)))),
                                               m.exponent)),
                                   fac))
               ELSE r1

RECURSIVE RayColorOf(_, _, _, _, _)
RECURSIVE CallsFrom(_, _, _, _, _, _, _, _, _)

\* The k-th recursive call has returned sub: res is updated and the next
\* call follows with the rng as the callee left it.
CallReturned(scene, m, result, ray, significance, depth, k, n, acc, shade, sub) ==
    CallsFrom(scene, m, result, ray, significance, depth, k + 1, n,
              [color |-> Returned(m, FaceNormal(result, ray), shade.fresnel,
                                  significance, Head(acc.rng \o << Draw(NaN, NaN, NaN) >>),
                                  shade.calls[k], acc.color, sub.color),
               rng |-> sub.rng])

\* The k-th recursive call of a Material::color call, given what the call
\* computes with the draw of this pass: the callee receives the rng after
\* that draw.
CallTraced(scene, m, result, ray, significance, depth, k, n, acc, shade) ==
    CallReturned(scene, m, result, ray, significance, depth, k, n, acc,
                 shade,
                 RayColorOf(scene, shade.calls[k].ray,
                            shade.calls[k].significance,
                            shade.calls[k].depth,
                            IF m.class = "IndirectPhong" THEN Tail(acc.rng)
                            ELSE acc.rng))

\* The recursive calls of a Material::color call from the k-th of n on;
\* acc holds res and the rng.  A pass of the indirect-lighting loop draws
\* from the rng first.
CallsFrom(scene, m, result, ray, significance, depth, k, n, acc) ==
    IF k > n THEN acc
    ELSE CallTraced(scene, m, result, ray, significance, depth, k, n, acc,
                    MaterialColor(m, scene, result, ray, significance,
                                  depth,
                                  DrawsOf(m, IF m.class = "IndirectPhong"
                                             THEN Head(acc.rng)
                                             ELSE Draw(NaN, NaN, NaN))))

\* Material::color to its return, given what it computes up to its
\* recursive calls (the draws do not change their number).
MaterialResult(scene, m, result, ray, significance, depth, rng, shade) ==
    CallsFrom(scene, m, result, ray, significance, depth, 1,
              Len(shade.calls), [color |-> shade.res, rng |-> rng])

\* ray_color given the result of scene.intersect(ray).
HitColor(scene, ray, significance, depth, rng, result) ==
    IF result.obj = 0
    THEN [color |-> BackgroundColor(scene.background, ray), rng |-> rng]
    ELSE MaterialResult(scene, scene.objects[result.obj].material, result,
                        ray, significance, depth, rng,
                        MaterialColor(scene.objects[result.obj].material,
                                      scene, result, ray, significance,
                                      depth,
                                      DrawsOf(scene.objects[result.obj].material,
                                              Draw(NaN, NaN, NaN))))

\* ray_color: the colour it returns and the rng as it leaves it.
RayColorOf(scene, ray, significance, depth, rng) ==
    HitColor(scene, ray, significance, depth, rng,
             SceneIntersect(scene.objects, ray))

\* A raytrace call: its arguments pos, significance and rng (seed holds the
\* draws the rng yields from the start, rng those it has yet to yield), and
\* its locals: res, the passes of its loop completed and the ray_color
\* calls made.  color is what it returned once pc is "done".
Task(pos, significance, seed) ==
    [pos |-> pos, significance |-> significance, seed |-> seed, rng |-> seed,
     sampleNo |-> 0, res |-> BLACK, calls |-> << >>, pc |-> "raytrace",
     color |-> BLACK]

\* res = res + ray_color(..): the call made and what it returned.
PassTraced(t, call, sub) ==
    [t EXCEPT !.res = CAdd(t.res, sub.color), !.rng = sub.rng,
              !.sampleNo = t.sampleNo + 1,
              !.calls = Append(t.calls,
                               [ray |-> call.ray,
                                significance |-> call.significance,
                                depth |-> call.depth, color |-> sub.color])]

\* One pass of the loop of raytrace, given the ray_color call it makes and
\* the rng as project left it.
PassProjected(scene, t, rng, call) ==
    PassTraced(t, call,
               RayColorOf(scene, call.ray, call.significance, call.depth, rng))

\* One pass of the loop of raytrace: scene.camera.project(pos, rng), which
\* draws once from the rng when the camera is a DepthOfFieldCamera, then
\* ray_color(scene, &ray, significance, 0, rng).
RaytracePass(scene, t, rng) ==
    PassProjected(scene, t,
                  IF scene.camera.class = "DepthOfField" THEN Tail(rng)
                  ELSE rng,
                  Call("raytrace",
                       CameraProject(scene.camera, t.pos,
                                     IF scene.camera.class = "DepthOfField"
                                     THEN Head(rng)
                                     ELSE Draw(NaN, NaN, NaN)),
                       t.significance, 0))

\* res / scene.camera.samples() as f64
Averaged(scene, t) ==
    [t EXCEPT !.pc = "done",
              !.color = CDivS(t.res, F(Samples(scene.camera)))]

\* raytrace from the pass t is at to its return.
RECURSIVE RaytraceOf(_, _)
RaytraceOf(scene, t) ==
    IF t.sampleNo >= Samples(scene.camera) THEN Averaged(scene, t)
    ELSE RaytraceOf(scene, RaytracePass(scene, t, t.rng))

VARIABLES
    scene,         \* the scene, read-only
    pixel,         \* the arguments of raytrace: pos and significance
    sampleNo,      \* passes of the sample loop of raytrace completed
    pc,            \* position of the control
    ray,           \* arguments of the ray_color call in progress
    significance,
    depth,
    caller,        \* the material call that issued it, if any
    hit,           \* what scene.intersect(ray) returned
    shade,         \* what the material did with the hit
    results,       \* the per-object results inside Scene::intersect
    arg,           \* the arguments of a function called on its own
    ret,           \* what that function returned
    tasks          \* the raytrace calls of a render, one per task

vars == << scene, pixel, sampleNo, pc, ray, significance, depth, caller, hit,
           shade, results, arg, ret, tasks >>

NoCaller ==
    [some |-> FALSE, class |-> "", branch |-> "", significance |-> NaN,
     depth |-> 0]
Caller(class, branch, sig, dep) ==
    [some |-> TRUE, class |-> class, branch |-> branch, significance |-> sig,
     depth |-> dep]

NoShade == Shaded(BLACK, << >>, << >>, NoneF)
\* No function is being called on its own.
NoArg == [fn |-> ""]
NoRay == Ray(V(NaN, NaN, NaN), V(NaN, NaN, NaN))

\* The material of the object that was hit.
HitMaterial == scene.objects[hit.obj].material

---------------------------------------------------------------------------
(* The scenes the traces start from.  Coordinates are chosen so that every *)
(* square root the program takes is rational.                              *)

WHITE == C4th(4, 4, 4)

\* Materials: a diffuse Phong; a perfect mirror of significance 1; a white
\* mirror of specular significance 3; a dim mirror of specular significance
\* 1/2; one of each of the other three classes.
Mat ==
    [diffuse |-> PhongMaterial(C4th(3, 2, 1), BLACK, 1, C4th(1, 0, 0)),
     mirror |-> PhongMaterial(BLACK, C4th(4, 0, 0), 1, C4th(0, 0, 1)),
     bright |-> PhongMaterial(BLACK, WHITE, 1, C4th(0, 1, 0)),
     dim |-> PhongMaterial(C4th(1, 1, 1), C4th(1, 1, 0), 2, C4th(0, 0, 0)),
     fresnel |-> FresnelMaterial(C4th(2, 2, 2), C4th(4, 0, 0), 1,
                                 C4th(1, 1, 0), F(3)),
     glass |-> TransparentMaterial(C4th(4, 0, 0), 1, F(3)),
     indirect |-> IndirectPhongMaterial(C4th(2, 2, 2), BLACK, 1,
                                        C4th(0, 1, 1), 2)]

\* Shapes. The sphere of radius 5 is seen from (0, 3, 10): the primary ray
\* hits it at (0, 3, 4), where the lamp at (0, 7, 4) lies in direction
\* (0, 1, 0); the occluder lies between the shaded point and that lamp, the
\* sphere beyond lies behind the lamp, and the sheet is the plane z = 4, in
\* which the shadow ray lies.
Body ==
    [unit |-> Sphere(VI(0, 0, 0), F(1)),
     big |-> Sphere(VI(0, 0, 0), F(5)),
     occluder |-> Sphere(VI(0, 5, 4), F(1)),
     beyond |-> Sphere(VI(0, 9, 4), F(1)),
     floor |-> Plane(VI(0, 0, -3), VI(0, 0, 1)),
     ceiling |-> Plane(VI(0, 0, 8), VI(0, 0, -1)),
     sheet |-> Plane(VI(0, 0, 4), VI(0, 0, 1)),
     target |-> Sphere(V(Q(-3, 2), F(0), F(-2)), F(1))]

Lamps ==
    [lamp |-> PointLight(VI(0, 0, 4), WHITE),
     side |-> PointLight(VI(0, 7, 4), WHITE),
     sun |-> DirectionalLight(VI(0, 0, -1), C4th(2, 2, 2))]

\* A camera on the z axis at height z looking down the axis.
AxisCamera(z) ==
    SimplePerspectiveCamera(VI(0, 0, z), VI(0, 0, -1), VI(0, 1, 0), F(1))

SideCamera ==
    SimplePerspectiveCamera(VI(0, 3, 10), VI(0, 0, -1), VI(0, 1, 0), F(1))

Sky == SolidColorBackground(C4th(1, 2, 3))

SceneList ==
    << Scene(<< >>, << Lamps.lamp >>, AxisCamera(5), Sky),
       Scene(<< Object(Body.floor, Mat.diffuse) >>, << Lamps.lamp, Lamps.sun >>,
             AxisCamera(5), Sky),
       Scene(<< Object(Body.unit, Mat.bright) >>, << Lamps.lamp >>,
             AxisCamera(5), Sky),
       Scene(<< Object(Body.unit, Mat.dim), Object(Body.floor, Mat.diffuse) >>,
             << Lamps.sun, Lamps.lamp >>, AxisCamera(5), Sky),
       Scene(<< Object(Body.floor, Mat.mirror), Object(Body.ceiling, Mat.mirror) >>,
             << Lamps.lamp >>, AxisCamera(5), Sky),
       Scene(<< Object(Body.floor, Mat.dim), Object(Body.ceiling, Mat.fresnel) >>,
             << Lamps.lamp >>, AxisCamera(5), Sky),
       Scene(<< Object(Body.floor, Mat.fresnel), Object(Body.ceiling, Mat.dim) >>,
             << Lamps.lamp, Lamps.sun >>, AxisCamera(5), Sky),
       Scene(<< Object(Body.unit, Mat.glass), Object(Body.floor, Mat.diffuse) >>,
             << Lamps.lamp >>, AxisCamera(5), Sky),
       Scene(<< Object(Body.floor, Mat.indirect) >>, << Lamps.lamp >>, AxisCamera(5),
             Sky),
       Scene(<< Object(Body.floor, Mat.indirect), Object(Body.ceiling, Mat.dim) >>,
             << Lamps.lamp >>, AxisCamera(5), Sky),
       Scene(<< Object(Body.big, Mat.diffuse) >>, << Lamps.side, Lamps.sun >>,
             SideCamera, Sky),
       Scene(<< Object(Body.big, Mat.diffuse), Object(Body.occluder, Mat.diffuse) >>,
             << Lamps.side, Lamps.sun >>, SideCamera, Sky),
       Scene(<< Object(Body.big, Mat.diffuse), Object(Body.beyond, Mat.diffuse) >>,
             << Lamps.side, Lamps.sun >>, SideCamera, Sky),
       Scene(<< Object(Body.big, Mat.diffuse), Object(Body.occluder, Mat.diffuse),
                Object(Body.sheet, Mat.diffuse) >>,
             << Lamps.side, Lamps.sun >>, SideCamera, Sky) >>

Scenes == {SceneList[i] : i \in DOMAIN SceneList}

\* The draws one Material::color call consumes; those modelled are r1 = 0
\* with r2 = pi/2 and with r2 = 3pi/2.
DrawSeqs(m) ==
    IF m.class = "IndirectPhong"
    THEN [1..m.samples -> {Draw(F(0), F(0), F(1)), Draw(F(0), F(0), F(-1))}]
    ELSE {<< >>}

\* The depth a callee can receive: the one passed, or any u32 where the
\* call passes none; of these the model follows four.
CalleeDepths(call, d) ==
    IF call.depth = NoDepth THEN {0, d, d + 1, MAX_DEPTH + 2}
    ELSE {call.depth}

---------------------------------------------------------------------------
(* The trace of one raytrace call, followed along one path of the tree of *)
(* ray_color calls.                                                       *)

Init ==
    /\ scene \in Scenes
    /\ pixel = [pos |-> [x |-> F(0), y |-> F(0)], significance |-> F(1)]
    /\ sampleNo = 0
    /\ pc = "raytrace"
    /\ ray = NoRay
    /\ significance = NaN
    /\ depth = 0
    /\ caller = NoCaller
    /\ hit = NoSceneHit
    /\ shade = NoShade
    /\ results = << >>
    /\ arg = NoArg
    /\ ret = NoArg
    /\ tasks = << >>

\* raytrace: one pass of the sample loop calls ray_color at depth 0.
Raytrace ==
    /\ pc = "raytrace"
    /\ sampleNo < Samples(scene.camera)
    /\ ray' = Project(scene.camera, pixel.pos)
    /\ significance' = pixel.significance
    /\ depth' = 0
    /\ caller' = NoCaller
    /\ pc' = "ray_color"
    /\ UNCHANGED << scene, pixel, sampleNo, hit, shade, results >>
    /\ UNCHANGED << arg, ret, tasks >>

\* ray_color: intersect the scene, then the material of the nearest hit, or
\* the background, computes the colour, up to its recursive calls.
RayColor ==
    /\ pc = "ray_color"
    /\ results' = ShapeResults(scene.objects, ray)
    /\ hit' = SelectNearest(results')
    /\ IF hit'.obj = 0
       THEN /\ shade' = Shaded(BackgroundColor(scene.background, ray),
                               << >>, << >>, NoneF)
            /\ pc' = "background"
       ELSE /\ \E draws \in DrawSeqs(scene.objects[hit'.obj].material) :
                 shade' = MaterialColor(scene.objects[hit'.obj].material,
                                        scene, hit', ray, significance,
                                        depth, draws)
            /\ pc' = "color"
    /\ UNCHANGED << scene, pixel, sampleNo, ray, significance, depth, caller >>
    /\ UNCHANGED << arg, ret, tasks >>

\* The material makes one of its recursive ray_color calls.
Descend ==
    /\ pc = "color"
    /\ \E i \in DOMAIN shade.calls :
         \E d \in CalleeDepths(shade.calls[i], depth) :
            /\ ray' = shade.calls[i].ray
            /\ significance' = shade.calls[i].significance
            /\ depth' = d
            /\ caller' = Caller(HitMaterial.class, shade.calls[i].branch,
                                significance, depth)
    /\ pc' = "ray_color"
    /\ UNCHANGED << scene, pixel, sampleNo, hit, shade, results >>
    /\ UNCHANGED << arg, ret, tasks >>

\* A call that makes no recursive call returns its colour.
Return ==
    /\ pc \in {"color", "background"}
    /\ shade.calls = << >>
    /\ pc' = "returned"
    /\ UNCHANGED << scene, pixel, sampleNo, ray, significance, depth, caller,
                    hit, shade, results >>
    /\ UNCHANGED << arg, ret, tasks >>

\* raytrace: the colour is added and the sample loop goes on.
NextSample ==
    /\ pc = "returned"
    /\ sampleNo' = sampleNo + 1
    /\ pc' = "raytrace"
    /\ UNCHANGED << scene, pixel, ray, significance, depth, caller, hit,
                    shade, results >>
    /\ UNCHANGED << arg, ret, tasks >>

\* raytrace: after the loop, the mean is returned.
Finish ==
    /\ pc = "raytrace"
    /\ sampleNo >= Samples(scene.camera)
    /\ pc' = "done"
    /\ UNCHANGED << scene, pixel, sampleNo, ray, significance, depth, caller,
                    hit, shade, results >>
    /\ UNCHANGED << arg, ret, tasks >>

Next == Raytrace \/ RayColor \/ Descend \/ Return \/ NextSample \/ Finish

Spec == Init /\ [][Next]_vars

\* The program does not stop in the middle of raytrace: as long as the
\* control has not reached done, it moves on.
Progress ==
    /\ pc # "done"
    /\ pc' \in {"raytrace", "ray_color", "color", "background", "returned",
                "done"}
    /\ pc' # pc

FairSpec == Init /\ [][Next]_vars /\ WF_pc(Progress)

---------------------------------------------------------------------------
(* ray_color entered directly: it is public, so its depth and significance *)
(* are the caller's choice.                                                *)

InitColor ==
    /\ scene \in Scenes
    /\ pixel = [pos |-> [x |-> F(0), y |-> F(0)], significance |-> F(1)]
    /\ sampleNo = 0
    /\ pc = "ray_color"
    /\ ray = Project(scene.camera, pixel.pos)
    /\ significance \in {F(1), Q(1, 1024)}
    /\ depth \in {MAX_DEPTH, MAX_DEPTH + 1, MAX_DEPTH + 2}
    /\ caller = NoCaller
    /\ hit = NoSceneHit
    /\ shade = NoShade
    /\ results = << >>
    /\ arg = NoArg
    /\ ret = NoArg
    /\ tasks = << >>

NextColor == RayColor \/ Descend \/ Return

SpecColor == InitColor /\ [][NextColor]_vars

---------------------------------------------------------------------------
(* Scene::intersect alone, on object lists and rays off the axis.          *)

\* The longest object list.
MaxObjects == 3

\* The shapes of the object lists: a big and a small sphere, a plane with a
\* unit normal, a plane whose normal has length 2, and the plane x = 0.
ShapeList ==
    << Body.big,
       Sphere(VI(0, 0, -3), F(1)),
       Plane(VI(0, 0, -2), VI(0, 0, 1)),
       Plane(VI(0, 0, -4), VI(0, 0, 2)),
       Plane(VI(0, 0, 0), VI(1, 0, 0)) >>

\* The lists of distinct objects of at most MaxObjects objects.
ObjectLists ==
    LET idx == UNION {[1..n -> DOMAIN ShapeList] : n \in 0..MaxObjects}
        inj == {f \in idx : \A i, j \in DOMAIN f : f[i] = f[j] => i = j}
    IN  {[i \in DOMAIN f |-> Object(ShapeList[f[i]], Mat.diffuse)] : f \in inj}

ShapeRays ==
    {Ray(VI(x, 0, z), d) :
        x \in {0, 3, 5}, z \in {-7, 0, 4, 5},
        d \in {VI(0, 0, 1), VI(0, 0, -1), VI(0, 0, -2), VI(1, 0, 0),
               VI(-1, 0, 0)}}

InitShape ==
    /\ \E objects \in ObjectLists :
          scene = Scene(objects, << >>, AxisCamera(5), Sky)
    /\ pixel = [pos |-> [x |-> F(0), y |-> F(0)], significance |-> F(1)]
    /\ sampleNo = 0
    /\ pc = "intersect"
    /\ ray \in ShapeRays
    /\ significance = NaN
    /\ depth = 0
    /\ caller = NoCaller
    /\ hit = NoSceneHit
    /\ shade = NoShade
    /\ results = << >>
    /\ arg = NoArg
    /\ ret = NoArg
    /\ tasks = << >>

\* Scene::intersect: every object's shape is intersected with the ray and
\* the nearest hit is selected.
Intersect ==
    /\ pc = "intersect"
    /\ results' = ShapeResults(scene.objects, ray)
    /\ hit' = SelectNearest(results')
    /\ pc' = "intersected"
    /\ UNCHANGED << scene, pixel, sampleNo, ray, significance, depth, caller,
                    shade >>
    /\ UNCHANGED << arg, ret, tasks >>

SpecShape == InitShape /\ [][Intersect]_vars

---------------------------------------------------------------------------
(* Properties of the recursion (Spec, FairSpec, SpecColor)                 *)

\* C1: ray_color called with significance 1.0 and depth 0 terminates on
\* every scene and every starting ray: each path of the tree of recursive
\* calls ends, so raytrace gets its colour and finishes.
C1_RayColorTerminates == <>(pc = "done")

\* C2: every recursive ray_color call is made with the caller's depth + 1,
\* and so no material is called at a depth above MAX_DEPTH + 1.
C2_DepthIncrements ==
    /\ caller.some => depth = caller.depth + 1
    /\ pc = "color" => depth <= MAX_DEPTH + 1

\* C3: the significance passed to a recursive ray_color call is at most the
\* significance the calling material received.
C3_SignificanceNonIncreasing ==
    caller.some => FLe(significance, caller.significance)

\* The colour a truncated material returns.
AmbientOf(m) == IF m.class = "Transparent" THEN BLACK ELSE m.ambient

\* C4: a material called with depth > MAX_DEPTH returns exactly its ambient
\* colour (black for TransparentMaterial), queries no light, casts no
\* shadow ray and makes no recursive call.
C4_TruncatedToAmbient ==
    (pc = "color" /\ depth > MAX_DEPTH) =>
        /\ shade.res = AmbientOf(HitMaterial)
        /\ \A i \in DOMAIN shade.passes : ~shade.passes[i].queried
        /\ shade.calls = << >>

\* C4 happens: a transparent sphere, lit by a lamp, is shaded at a depth
\* above MAX_DEPTH with full significance.
C4_Witness ==
    /\ pc = "color"
    /\ depth > MAX_DEPTH
    /\ HitMaterial.class = "Transparent"
    /\ scene.lights # << >>
    /\ FEq(significance, F(1))
    /\ shade.res = BLACK

---------------------------------------------------------------------------
(* Properties of the intersections (SpecShape)                             *)

Hits(res) == {i \in DOMAIN res : res[i].hit}

\* The object list in the order given by a permutation of its indices.
Permuted(objects, f) == [i \in DOMAIN objects |-> objects[f[i]]]
Reorderings(n) ==
    {f \in [1..n -> 1..n] : \A i, j \in 1..n : f[i] = f[j] => i = j}

\* C5: Scene.intersect returns none iff no shape is hit; otherwise the t it
\* returns is the minimum of the t of all hits, and the same t is returned
\* for every permutation of the object list.
C5_NearestHit ==
    pc = "intersected" =>
        /\ hit.obj = 0 <=> Hits(results) = {}
        /\ hit.obj # 0 =>
              \A i \in Hits(results) : FLe(hit.t, results[i].t)
        /\ \A f \in Reorderings(Len(scene.objects)) :
              LET h == SceneIntersect(Permuted(scene.objects, f), ray)
              IN  /\ h.obj = 0 <=> hit.obj = 0
                  /\ hit.obj # 0 => FEq(h.t, hit.t)

\* C6: when one object's result has t = NaN and another has a finite
\* positive t, the object returned by Scene.intersect is not the NaN one.
C6_NaNExcluded ==
    ( /\ pc = "intersected"
      /\ \E i \in Hits(results) : IsNaN(results[i].t)
      /\ \E i \in Hits(results) :
            results[i].t.k = "fin" /\ FGt(results[i].t, F(0)) )
    => (hit.obj # 0 /\ ~IsNaN(hit.t))

\* C7: every IntersectionResult a shape returns has t > 0.
C7_PositiveT ==
    pc = "intersected" =>
        \A i \in Hits(results) : FGt(results[i].t, F(0))

\* C8: every normal a shape returns has unit length.
C8_UnitNormals ==
    pc = "intersected" =>
        \A i \in Hits(results) : FEq(SqNorm(results[i].normal), F(1))

Spheres == {i \in DOMAIN scene.objects : scene.objects[i].bounds.shape = "Sphere"}

\* a*t^2 + b*t + c of the ray and the i-th object, a sphere.
Quadratic(i, t) ==
    LET sp == scene.objects[i].bounds
    IN  FAdd(FAdd(FMul(SphereA(sp, ray), FMul(t, t)),
                  FMul(SphereB(sp, ray), t)),
             SphereC(sp, ray))
\* The root other than t, by the sum of the roots: -b/a - t.
OtherRoot(i, t) ==
    LET sp == scene.objects[i].bounds
    IN  FSub(FDiv(FNeg(SphereB(sp, ray)), SphereA(sp, ray)), t)

\* C9: Sphere.intersect returns the smallest strictly positive root of the
\* quadratic: no hit when the discriminant is <= 0 or both roots are <= 0;
\* the nearer root when the origin is outside and the ray aimed at the
\* sphere; the single positive root when the origin is strictly inside.
C9_SmallestPositiveRoot ==
    pc = "intersected" =>
      \A i \in Spheres :
        LET sp == scene.objects[i].bounds
            r == results[i]
            b == SphereB(sp, ray)
            c == SphereC(sp, ray)
            disc == DiscriminantOf(SphereA(sp, ray), b, c)
        IN  /\ FLe(disc, F(0)) => ~r.hit
            /\ r.hit =>
                  /\ FGt(r.t, F(0))
                  /\ IsZero(Quadratic(i, r.t))
                  /\ FGt(OtherRoot(i, r.t), F(0)) =>
                        FLe(r.t, OtherRoot(i, r.t))
            /\ (~r.hit /\ FGt(disc, F(0))) =>
                  (FGe(b, F(0)) /\ FGe(c, F(0)))
            /\ FLt(c, F(0)) =>
                  (r.hit /\ FLt(OtherRoot(i, r.t), F(0)))
            /\ (FGt(c, F(0)) /\ FLt(b, F(0)) /\ FGt(disc, F(0))) =>
                  (r.hit /\ FLt(r.t, OtherRoot(i, r.t)))

\* C9 happens: one ray starts strictly inside one sphere, which it leaves
\* through its single positive root, and outside another sphere that it is
\* aimed at, which it enters through the nearer of two positive roots.
C9_Witness ==
    /\ pc = "intersected"
    /\ \E i, j \in Spheres :
          /\ FLt(SphereC(scene.objects[i].bounds, ray), F(0))
          /\ results[i].hit
          /\ FLt(OtherRoot(i, results[i].t), F(0))
          /\ FGt(SphereC(scene.objects[j].bounds, ray), F(0))
          /\ results[j].hit
          /\ FGt(OtherRoot(j, results[j].t), results[j].t)

---------------------------------------------------------------------------
(* Properties of the shadow test (Spec)                                    *)

\* An object blocks a light: the shadow ray hits its shape, and the light
\* has no range or the squared hit distance is below its squared range.
Blocks(r, sqrange) ==
    r.hit /\ (~sqrange.some \/ FLt(FMul(r.t, r.t), sqrange.v))

\* C10: in the direct-lighting loop a light is treated as occluded iff its
\* shadow ray hits some object and either the light has no range or the
\* squared hit distance is less than its squared range; an occluded light,
\* in particular a point light with an object on the segment between the
\* shaded point and the light, contributes no diffuse and no specular
\* illumination; and each light that is not occluded contributes what it
\* contributes when it is the only light.
C10_ShadowTest ==
    pc = "color" =>
      \A i \in DOMAIN shade.passes :
        LET p == shade.passes[i]
            pt == Cast(ray, hit.t)
            normal == FaceNormal(hit, ray)
            alone == LightPass(scene.objects, HitMaterial, scene.lights[i],
                               pt, normal, ray, p.addDiffuse \/ p.occluded,
                               p.addSpecular, shade.fresnel)
        IN  p.queried =>
              /\ p.occluded <=>
                    \E j \in DOMAIN p.shadowResults :
                       Blocks(p.shadowResults[j], p.sqrange)
              /\ p.occluded => (~p.addDiffuse /\ ~p.addSpecular)
              /\ ~p.occluded => /\ p.diffuseTerm = alone.diffuseTerm
                                /\ p.specularTerm = alone.specularTerm

---------------------------------------------------------------------------
(* The public functions called on their own, on arguments the traces do    *)
(* not reach.                                                              *)

\* Vectors of rational length, the zero vector among them.
Offsets ==
    {VI(0, 0, 0), VI(0, 0, 4), VI(0, 0, -1), VI(3, 4, 0), VI(0, -3, 4),
     VI(2, 3, 6), VI(-1, 2, 2), VI(0, 7, 0)}

\* Lights and shaded points: point lights with the points at the offsets
\* from their location, directional lights of unit and non-unit direction.
LightArgs ==
    {[fn |-> "light_dir_and_sq_range_for", light |-> PointLight(loc, WHITE),
      pt |-> VSub(loc, o)] : loc \in {VI(0, 0, 4), VI(0, 7, 4)}, o \in Offsets}
    \cup
    {[fn |-> "light_dir_and_sq_range_for",
      light |-> DirectionalLight(dir, WHITE), pt |-> o] :
        dir \in {VI(0, 0, -1), VI(0, 0, -2), VI(0, 3, -4),
                 V(F(0), Q(3, 5), Q(-4, 5))},
        o \in Offsets}

\* A hit handed to Material::color: the material, the IntersectionResult
\* (t = 1) and the ray, at significance 1.0 and depth 0.
ColorArg(m, normal, direction) ==
    [fn |-> "color", m |-> m, result |-> [obj |-> 0, t |-> F(1),
                                          normal |-> normal],
     ray |-> Ray(VI(0, 0, 1), direction), significance |-> F(1), depth |-> 0]

\* Unit directions: along the normal, oblique and grazing.
UnitDirections == {VI(0, 0, -1), V(Q(3, 5), F(0), Q(-4, 5)), VI(1, 0, 0)}

\* FresnelMaterial::color on indices of refraction above, at and below 1,
\* on normals facing the ray and facing away, of length 1 and of length 2.
FresnelArgs ==
    {ColorArg(FresnelMaterial(C4th(2, 2, 2), C4th(4, 0, 0), 1, C4th(1, 1, 0),
                              ior), normal, direction) :
        ior \in {F(1), F(3), Q(1, 2), F(0), F(-1)},
        normal \in {VI(0, 0, 1), VI(0, 0, -1), VI(0, 0, 2)},
        direction \in UnitDirections}

\* TransparentMaterial::color with ior = 1.0 on rays entering and leaving,
\* along the normal, oblique and grazing, with ior = 3.0 along the normal,
\* and with ior = 7.0 along the normal on a ray of significance 1/256, the
\* significance a mirror of specular colour (1/256, 0, 0) hands to its
\* reflected ray.
TransparentArgs ==
    {ColorArg(TransparentMaterial(C4th(4, 0, 0), 1, F(1)), normal, direction) :
        normal \in {VI(0, 0, 1), VI(0, 0, -1)},
        direction \in {VI(0, 0, -1), V(Q(6, 7), Q(3, 7), Q(-2, 7)),
                       VI(1, 0, 0)}}
    \cup
    {ColorArg(TransparentMaterial(C4th(4, 0, 0), 1, F(3)), normal,
              VI(0, 0, -1)) : normal \in {VI(0, 0, 1), VI(0, 0, -1)}}
    \cup
    {[ColorArg(TransparentMaterial(C4th(4, 0, 0), 1, F(7)), normal,
               VI(0, 0, -1)) EXCEPT !.significance = Q(1, 256)] :
        normal \in {VI(0, 0, 1), VI(0, 0, -1)}}

\* The variables of the traces, at rest while a function is called on its
\* own.
NoTrace ==
    /\ scene = Scene(<< >>, << >>, AxisCamera(5), Sky)
    /\ pixel = [pos |-> [x |-> F(0), y |-> F(0)], significance |-> F(1)]
    /\ sampleNo = 0
    /\ ray = NoRay
    /\ significance = NaN
    /\ depth = 0
    /\ caller = NoCaller
    /\ hit = NoSceneHit
    /\ shade = NoShade
    /\ results = << >>
    /\ tasks = << >>

\* Cameras: the two simple ones, and depth-of-field cameras built on the
\* axis camera (im_dist 1) with the focal plane beyond, on and before the
\* image plane, a closed and an open aperture, and 0 to 3 samples.
Cameras ==
    {AxisCamera(5), SideCamera}
    \cup {DepthOfFieldCamera(AxisCamera(5), focus, F(0), samples) :
             focus \in {F(5), F(1), Q(1, 2)}, samples \in 0..3}
    \cup {DepthOfFieldCamera(AxisCamera(5), F(5), F(3), 2)}

\* project called with image positions and draws for which the norms are
\* rational: the draw is theta = 0 or pi/2 and r2 = 0 or 1, and the open
\* aperture projects the centre of the image.
CameraArgs ==
    {[fn |-> "samples", camera |-> camera] : camera \in Cameras}
    \cup {[fn |-> "project", camera |-> camera, pos |-> pos,
            dr |-> Draw(F(r2), F(c), F(1 - c))] :
             camera \in {k \in Cameras :
                           k.class = "DepthOfField"
                           => k.samples = 2 /\ IsZero(k.aperture)},
             pos \in {[x |-> F(0), y |-> F(0)], [x |-> Q(3, 4), y |-> F(0)],
                      [x |-> F(2), y |-> F(2)]},
             r2 \in {0, 1}, c \in {0, 1}}
    \cup {[fn |-> "project",
            camera |-> DepthOfFieldCamera(AxisCamera(5), F(5), F(3), 2),
            pos |-> [x |-> F(0), y |-> F(0)],
            dr |-> Draw(F(r2), F(c), F(1 - c))] : r2 \in {0, 1}, c \in {0, 1}}

---------------------------------------------------------------------------
(* Color to bytes *)

\* x.trunc() of a finite x without eps part, as an integer.
Trunc(x) ==
    IF x.b # 0 \/ x.c # 0 THEN Unrepresentable
    ELSE IF x.a >= 0 THEN x.a \div x.d ELSE -((-x.a) \div x.d)

\* `as u8` with no test before it: the low byte of the truncated value.
ByteOfWrapped(x) ==
    IF x.k # "fin" THEN 0..255 ELSE {Trunc(x) % 256}

\* if x < 0.0 {0} else if x >= 255.0 {255} else {x.trunc() as u8}: the bytes
\* the conversion can return.  A NaN passes both tests, and what `as u8`
\* makes of it is not defined: any byte.
ByteOf(x) ==
    IF FLt(x, F(0)) THEN {0}
    ELSE IF FGe(x, F(255)) THEN {255}
    ELSE IF IsNaN(x) THEN 0..255
    ELSE {Trunc(x)}

\* fn clamp_color_val(val: f64) -> u8
clamp_color_val(val) == ByteOf(FMul(val, F(256)))

\* Color::rgb
Rgb(c) ==
    { << r, g, b >> : r \in clamp_color_val(c.r), g \in clamp_color_val(c.g),
                      b \in clamp_color_val(c.b) }

\* Color::bgr
Bgr(c) ==
    { << b, g, r >> : b \in clamp_color_val(c.b), g \in clamp_color_val(c.g),
                      r \in clamp_color_val(c.r) }

\* Components inside, at the ends of and outside [0, 1], and the colours
\* converted.
Components ==
    { F(-1), Zero(-1), F(0), Q(1, 512), Q(1, 256), Q(1, 2), Q(509, 512),
      Q(255, 256), Q(511, 512), F(1), F(2), Inf(1), Inf(-1), NaN }

ByteArgs ==
    { [fn |-> f, color |-> Color(v, w, Q(1, 3))] :
        f \in {"rgb", "bgr"}, v \in Components, w \in Components \ {NaN} }

---------------------------------------------------------------------------
(* Textures *)

\* struct Texture.  data holds three bytes a texel, row after row, and at
\* makes a colour of the three bytes at idx with Color::from_srgb, which
\* color.rs does not define: colors[i + 1] stands for the colour of the
\* bytes 3 * i .. 3 * i + 2 of data.
Texture(width, height, colors) ==
    [width |-> width, height |-> height, colors |-> colors]

\* fn clamp(x: f64) -> f64
clamp(x) == IF FLt(x, F(0)) THEN F(0) ELSE IF FGt(x, F(1)) THEN F(1) ELSE x

\* `x as u32` of a finite x in the range of u32.
AsU32(x) == IF x.k = "fin" /\ x.s >= 0 THEN Trunc(x) ELSE Unrepresentable

\* The texel index x + y * self.width.
TexelIndex(t, x, y) == x + y * t.width

\* Texture::at: indexing data past its end panics.
at(t, x, y) ==
    IF 3 * TexelIndex(t, x, y) + 2 < 3 * Len(t.colors)
    THEN [x |-> x, y |-> y, panic |-> FALSE,
          color |-> t.colors[TexelIndex(t, x, y) + 1]]
    ELSE [x |-> x, y |-> y, panic |-> TRUE, color |-> BLACK]

\* The first of the reads that panics, 0 when none does.
FirstPanic(a) ==
    IF \E i \in DOMAIN a : a[i].panic
    THEN CHOOSE i \in DOMAIN a : a[i].panic /\ \A j \in 1..(i - 1) : ~a[j].panic
    ELSE 0

\* cx0 = at(x0, y0) * (1.0 - xx) + at(x0, y1) * xx;
\* cx1 = at(x1, y0) * (1.0 - xx) + at(x1, y1) * xx;
\* cx0 * (1.0 - yy) + cx1 * yy
\* on the four reads a, in the order they are made.
Blend(a, xx, yy) ==
    CAdd(CScale(CAdd(CScale(a[1].color, FSub(F(1), xx)),
                     CScale(a[2].color, xx)), FSub(F(1), yy)),
         CScale(CAdd(CScale(a[3].color, FSub(F(1), xx)),
                     CScale(a[4].color, xx)), yy))

\* What a call of sample does: the reads made up to the first that panics,
\* and the colour returned when none does.
Sampled(a, xx, yy, n) ==
    [panicked |-> n # 0,
     reads |-> IF n = 0 THEN a ELSE SubSeq(a, 1, n),
     xx |-> xx, yy |-> yy,
     color |-> IF n = 0 THEN Blend(a, xx, yy) ELSE BLACK]

\* Texture::sample from x0, y0 on: x1 = x0 + 1, y1 = y0 + 1 and the reads
\* at(x0, y0), at(x0, y1), at(x1, y0), at(x1, y1).
SampleReads(t, x0, y0) ==
    << at(t, x0, y0), at(t, x0, y0 + 1), at(t, x0 + 1, y0),
       at(t, x0 + 1, y0 + 1) >>

SampleAt(t, x, y) ==
    Sampled(SampleReads(t, AsU32(x), AsU32(y)), FSub(x, F(AsU32(x))),
            FSub(y, F(AsU32(y))),
            FirstPanic(SampleReads(t, AsU32(x), AsU32(y))))

\* Texture::sample
sample(t, x, y) ==
    SampleAt(t, FMul(clamp(x), F(t.width)), FMul(clamp(y), F(t.height)))

\* Textures of 1 to 3 by 1 to 3 texels as Texture::load makes them, all
\* texels of different colours, and coordinates inside, at the ends of and
\* outside [0, 1].
Textures ==
    { Texture(w, h, [i \in 1..(w * h) |-> C4th(i, 2 * i, 10 - i)]) :
        w \in 1..3, h \in 1..3 }

Coordinates ==
    { F(-1), F(0), Q(1, 8), Q(1, 4), Q(1, 3), Q(1, 2), Q(3, 4), F(1), F(2),
      Inf(1) }

SampleArgs ==
    { [fn |-> "sample", texture |-> t, x |-> x, y |-> y] :
        t \in Textures, x \in Coordinates, y \in Coordinates }

---------------------------------------------------------------------------
(* The skybox *)

\* struct SkyboxBackground
SkyboxBackground(px, nx, py, ny, pz, nz) ==
    [class |-> "Skybox", px |-> px, nx |-> nx, py |-> py, ny |-> ny,
     pz |-> pz, nz |-> nz]

NoFace == [some |-> FALSE, face |-> "none", x |-> NaN, y |-> NaN]

\* macro skybox_axis!: when the magnitude of the component dir exceeds the
\* magnitudes of both others, the face of its sign and the coordinates
\* $px * 0.5 + 0.5, $py * 0.5 + 0.5 sampled on it.
skybox_axis(namep, namen, dir, otherx, othery, px, py) ==
    IF FGt(FAbs(dir), FAbs(otherx)) /\ FGt(FAbs(dir), FAbs(othery))
    THEN [some |-> TRUE,
          face |-> IF FGt(dir, F(0)) THEN namep ELSE namen,
          x |-> FAdd(FMul(px, Q(1, 2)), Q(1, 2)),
          y |-> FAdd(FMul(py, Q(1, 2)), Q(1, 2))]
    ELSE NoFace

\* The three uses of skybox_axis! in SkyboxBackground::color.
SkyboxX(d) ==
    skybox_axis("px", "nx", d.x, d.z, d.y, FDiv(FNeg(d.z), d.x),
                FDiv(FNeg(d.y), FAbs(d.x)))
SkyboxY(d) ==
    skybox_axis("py", "ny", d.y, d.x, d.z, FDiv(d.x, FAbs(d.y)),
                FDiv(d.z, d.y))
SkyboxZ(d) ==
    skybox_axis("pz", "nz", d.z, d.x, d.y, FDiv(d.x, d.z),
                FDiv(FNeg(d.y), FAbs(d.z)))

\* The first of the three that returns.
SkyboxFace(d) ==
    IF SkyboxX(d).some THEN SkyboxX(d)
    ELSE IF SkyboxY(d).some THEN SkyboxY(d)
    ELSE SkyboxZ(d)

\* impl Background for SkyboxBackground: the face sampled and the call of
\* sample on its texture, or color::BLACK when no skybox_axis! returns.
SkyboxColor(sky, d) ==
    IF SkyboxFace(d).some
    THEN [face |-> SkyboxFace(d).face,
          sampled |-> sample(sky[SkyboxFace(d).face], SkyboxFace(d).x,
                             SkyboxFace(d).y)]
    ELSE [face |-> "none",
          sampled |-> [panicked |-> FALSE, reads |-> << >>, xx |-> F(0),
                       yy |-> F(0), color |-> BLACK]]

\* A skybox of six faces of 4 x 4 texels, every face of its own green
\* component, and directions along the axes, with one component of the
\* largest magnitude, and with two or three of the same magnitude.
FaceTexture(k) ==
    Texture(4, 4, [i \in 1..16 |-> Color(Q(i, 16), Q(k, 8), F(0))])

Skybox ==
    SkyboxBackground(FaceTexture(1), FaceTexture(2), FaceTexture(3),
                     FaceTexture(4), FaceTexture(5), FaceTexture(6))

SkyDirections ==
    { VI(1, 0, 0), VI(-1, 0, 0), VI(0, 1, 0), VI(0, -1, 0), VI(0, 0, 1),
      VI(0, 0, -1), V(Q(6, 7), Q(3, 7), Q(-2, 7)),
      V(Q(-6, 7), Q(-2, 7), Q(3, 7)), V(Q(2, 7), Q(6, 7), Q(3, 7)),
      V(Q(-2, 7), Q(-6, 7), Q(-3, 7)), V(Q(3, 7), Q(2, 7), Q(6, 7)),
      V(Q(3, 5), F(0), Q(-4, 5)), V(Q(2, 3), Q(2, 3), Q(1, 3)),
      V(Q(2, 3), Q(1, 3), Q(-2, 3)), V(Q(1, 3), Q(-2, 3), Q(2, 3)),
      VI(1, 1, 0), VI(1, -1, 1), VI(0, 0, 0) }

SkyboxArgs ==
    { [fn |-> "skybox", sky |-> Skybox, ray |-> Ray(VI(0, 0, 0), d)] :
        d \in SkyDirections }

---------------------------------------------------------------------------
(* The BMP header *)

\* A u32 in two limbs of 16 bits: the value hi * 2^16 + lo.
U32(hi, lo) == [hi |-> hi, lo |-> lo]

\* The value p1 * 2^8 + p0 in limbs, for p1 and p0 below 2^24.
Limbs(p1, p0) ==
    U32(p1 \div 256 + ((p1 % 256) * 256 + p0) \div 65536,
        ((p1 % 256) * 256 + p0) % 65536)

\* The product of two limbs, b taken byte by byte.
Mul16(a, b) == Limbs(a * (b \div 256), a * (b % 256))

\* The limb of weight 2^16 of x * y and what is carried out of it.
MiddleLimb(x, y) ==
    Mul16(x.hi, y.lo).lo + Mul16(x.lo, y.hi).lo + Mul16(x.lo, y.lo).hi

\* u32 * u32: the product modulo 2^32, and whether it overflows.
Mul32(x, y) ==
    [wrapped |-> U32(MiddleLimb(x, y) % 65536, Mul16(x.lo, y.lo).lo),
     overflow |-> \/ x.hi # 0 /\ y.hi # 0
                  \/ Mul16(x.hi, y.lo).hi # 0
                  \/ Mul16(x.lo, y.hi).hi # 0
                  \/ MiddleLimb(x, y) >= 65536]

\* u32 + u32: the sum modulo 2^32, and whether it overflows.
Add32(x, y) ==
    [wrapped |-> U32((x.hi + y.hi + (x.lo + y.lo) \div 65536) % 65536,
                     (x.lo + y.lo) % 65536),
     overflow |-> x.hi + y.hi + (x.lo + y.lo) \div 65536 >= 65536]

\* x & 0xFFFFFFFC
ClearLow2(x) == U32(x.hi, x.lo - (x.lo % 4))

\* The four bytes ((x) & 0xFF) as u8 .. ((x >> 24) & 0xFF) as u8.
LittleEndian(x) == << x.lo % 256, x.lo \div 256, x.hi % 256, x.hi \div 256 >>

\* let bytewidth = (3 * width + 3) & 0xFFFFFFFC
Tripled(width) == Mul32(U32(0, 3), width)
Rounded(width) == Add32(Tripled(width).wrapped, U32(0, 3))
Bytewidth(width) == ClearLow2(Rounded(width).wrapped)

\* let pasize = bytewidth * height
Pasize(width, height) == Mul32(Bytewidth(width), height)

\* let fsize = 14 + 108 + pasize
Fsize(width, height) == Add32(U32(0, 14 + 108), Pasize(width, height).wrapped)

\* Whether one of the operations of lines 11 to 13 overflows u32.
HeaderOverflows(width, height) ==
    \/ Tripled(width).overflow
    \/ Rounded(width).overflow
    \/ Pasize(width, height).overflow
    \/ Fsize(width, height).overflow

\* The fields of the header that depend on the arguments.
Header(width, height) ==
    [fsize |-> LittleEndian(Fsize(width, height).wrapped),
     width |-> LittleEndian(width), height |-> LittleEndian(height),
     pasize |-> LittleEndian(Pasize(width, height).wrapped)]

\* bmp::write_header: what a call can do.  f.write can fail, and try!
\* returns its error.  An arithmetic overflow panics in a build with
\* overflow checks and wraps in a build without.
write_header(width, height) ==
    { [result |-> "Err", bytewidth |-> U32(0, 0), header |-> << >>] }
    \cup
    (IF HeaderOverflows(width, height)
     THEN { [result |-> "panic", bytewidth |-> U32(0, 0), header |-> << >>] }
     ELSE { })
    \cup
    { [result |-> "Ok", bytewidth |-> Bytewidth(width),
       header |-> Header(width, height)] }

\* Widths and heights up to the ends of u32.
Widths ==
    { U32(0, n) : n \in {0, 1, 2, 3, 4, 5, 100, 21845, 65535} }
    \cup { U32(1, 0), U32(21845, 21844), U32(21845, 21845),
           U32(21845, 21846), U32(65535, 65535) }

Heights == { U32(0, n) : n \in {0, 1, 2, 100, 21845, 32767} }

HeaderArgs ==
    { [fn |-> "write_header", width |-> w, height |-> h] :
        w \in Widths, h \in Heights }

InitCall ==
    /\ NoTrace
    /\ pc = "call"
    /\ arg \in LightArgs \cup FresnelArgs \cup TransparentArgs \cup CameraArgs
               \cup ByteArgs
               \cup SampleArgs
               \cup SkyboxArgs
               \cup HeaderArgs
    /\ ret = NoArg

\* light.model.light_dir_and_sq_range_for(&pt, rng)
LightQuery ==
    /\ pc = "call"
    /\ arg.fn = "light_dir_and_sq_range_for"
    /\ ret' = LightDirAndSqRange(arg.light, arg.pt)
    /\ pc' = "called"
    /\ UNCHANGED << scene, pixel, sampleNo, ray, significance, depth, caller,
                    hit, shade, results, arg, tasks >>

\* material.color(scene, &result, ray, significance, depth, rng), in a scene
\* without lights.
MaterialQuery ==
    /\ pc = "call"
    /\ arg.fn = "color"
    /\ ret' = MaterialColor(arg.m, scene, arg.result, arg.ray,
                            arg.significance, arg.depth, << >>)
    /\ pc' = "called"
    /\ UNCHANGED << scene, pixel, sampleNo, ray, significance, depth, caller,
                    hit, shade, results, arg, tasks >>

\* camera.project(&pos, rng)
ProjectQuery ==
    /\ pc = "call"
    /\ arg.fn = "project"
    /\ ret' = CameraProject(arg.camera, arg.pos, arg.dr)
    /\ pc' = "called"
    /\ UNCHANGED << scene, pixel, sampleNo, ray, significance, depth, caller,
                    hit, shade, results, arg, tasks >>

\* camera.samples()
SamplesQuery ==
    /\ pc = "call"
    /\ arg.fn = "samples"
    /\ ret' = Samples(arg.camera)
    /\ pc' = "called"
    /\ UNCHANGED << scene, pixel, sampleNo, ray, significance, depth, caller,
                    hit, shade, results, arg, tasks >>

\* color.rgb() and color.bgr()
BytesQuery ==
    /\ pc = "call"
    /\ arg.fn \in {"rgb", "bgr"}
    /\ ret' \in (IF arg.fn = "rgb" THEN Rgb(arg.color) ELSE Bgr(arg.color))
    /\ pc' = "called"
    /\ UNCHANGED << scene, pixel, sampleNo, ray, significance, depth, caller,
                    hit, shade, results, arg, tasks >>

\* texture.sample(x, y)
SampleQuery ==
    /\ pc = "call"
    /\ arg.fn = "sample"
    /\ ret' = sample(arg.texture, arg.x, arg.y)
    /\ pc' = "called"
    /\ UNCHANGED << scene, pixel, sampleNo, ray, significance, depth, caller,
                    hit, shade, results, arg, tasks >>

\* scene.background.color(&ray, rng) of a skybox
SkyboxQuery ==
    /\ pc = "call"
    /\ arg.fn = "skybox"
    /\ ret' = SkyboxColor(arg.sky, arg.ray.direction)
    /\ pc' = "called"
    /\ UNCHANGED << scene, pixel, sampleNo, ray, significance, depth, caller,
                    hit, shade, results, arg, tasks >>

\* bmp::write_header(&mut f, width, height)
HeaderQuery ==
    /\ pc = "call"
    /\ arg.fn = "write_header"
    /\ ret' \in write_header(arg.width, arg.height)
    /\ pc' = "called"
    /\ UNCHANGED << scene, pixel, sampleNo, ray, significance, depth, caller,
                    hit, shade, results, arg, tasks >>

NextCall == LightQuery \/ MaterialQuery \/ ProjectQuery \/ SamplesQuery
    \/ BytesQuery
    \/ SampleQuery
    \/ SkyboxQuery
    \/ HeaderQuery

SpecCall == InitCall /\ [][NextCall]_vars

\* u and v are parallel and point the same way.
SameSense(u, v) ==
    /\ IsZero(Cross(u, v).x) /\ IsZero(Cross(u, v).y) /\ IsZero(Cross(u, v).z)
    /\ FGt(Dot(u, v), F(0))

\* C11: light_dir_and_sq_range_for returns a vector of length 1 pointing
\* from the point toward the light, with range None for a DirectionalLight
\* and Some(squared distance from the point to the location) for a
\* PointLight.
C11_UnitLightDirection ==
    (pc = "called" /\ arg.fn = "light_dir_and_sq_range_for") =>
        /\ FEq(SqNorm(ret.ldir), F(1))
        /\ IF arg.light.model = "PointLight"
           THEN /\ SameSense(ret.ldir, VSub(arg.light.v, arg.pt))
                /\ ret.sqrange.some
                /\ FEq(ret.sqrange.v, SqNorm(VSub(arg.light.v, arg.pt)))
           ELSE /\ SameSense(ret.ldir, VNeg(arg.light.v))
                /\ ~ret.sqrange.some

\* r0 + (1 - r0)(1 - |cos|)^5 with r0 = ((ior - 1)/(ior + 1))^2
SchlickValue(ior, cos) ==
    FAdd(FPow(FDiv(FSub(ior, F(1)), FAdd(ior, F(1))), 2),
         FMul(FSub(F(1), FPow(FDiv(FSub(ior, F(1)), FAdd(ior, F(1))), 2)),
              FPow(FSub(F(1), FAbs(cos)), 5)))

\* C12: the Fresnel factor of FresnelMaterial is the Schlick value clamped
\* to [0, 1]: r0 at normal incidence, 1 at grazing incidence, never below 0
\* or above 1.
C12_SchlickClamped ==
    (pc = "called" /\ arg.fn = "color" /\ arg.m.class = "Fresnel") =>
        LET cos == Dot(arg.result.normal, arg.ray.direction)
            value == SchlickValue(arg.m.ior, cos)
        IN  /\ ret.fresnel.some
            /\ FGe(ret.fresnel.v, F(0))
            /\ FLe(ret.fresnel.v, F(1))
            /\ FEq(ret.fresnel.v, clamp_zero(clamp_one(value)))
            /\ FEq(FAbs(cos), F(1)) =>
                  FEq(ret.fresnel.v,
                      FPow(FDiv(FSub(arg.m.ior, F(1)), FAdd(arg.m.ior, F(1))),
                           2))
            /\ IsZero(cos) => FEq(ret.fresnel.v, F(1))

\* The calls of one branch among the recursive calls of a material.
BranchCalls(shaded, branch) ==
    {i \in DOMAIN shaded.calls : shaded.calls[i].branch = branch}

\* C13: with ior = 1.0 the refracted ray TransparentMaterial traces has the
\* direction of the incident ray, entering or leaving, at every angle.
C13_NoBending ==
    (pc = "called" /\ arg.fn = "color" /\ arg.m.class = "Transparent"
       /\ FEq(arg.m.ior, F(1))) =>
        \A i \in BranchCalls(ret, "refract") :
            SameSense(ret.calls[i].ray.direction, arg.ray.direction)

\* C14: with ior = 1.0 the Fresnel reflectance TransparentMaterial computes
\* is 0 at every angle: no weight on the reflected branch, weight
\* 1 - fresnel = 1 on the refracted one.
C14_NoReflectance ==
    (pc = "called" /\ arg.fn = "color" /\ arg.m.class = "Transparent"
       /\ FEq(arg.m.ior, F(1))) =>
        /\ ret.fresnel.some
        /\ IsZero(ret.fresnel.v)
        /\ BranchCalls(ret, "reflect") = {}
        /\ \A i \in BranchCalls(ret, "refract") :
              FEq(ret.calls[i].significance, arg.significance)

\* C15: a DepthOfFieldCamera with aperture 0 projects every image position,
\* whatever the draw, to exactly the ray of the camera it wraps: the same
\* origin and the same direction.
C15_ClosedAperture ==
    (/\ pc = "called"
     /\ arg.fn = "project"
     /\ arg.camera.class = "DepthOfField"
     /\ IsZero(arg.camera.aperture))
    => /\ IsZero(SqNorm(VSub(ret.origin,
                             Project(arg.camera.camera, arg.pos).origin)))
       /\ IsZero(SqNorm(VSub(ret.direction,
                             Project(arg.camera.camera, arg.pos).direction)))

\* C17: samples() of every camera that can be constructed is at least 1.
C17_AtLeastOneSample ==
    (pc = "called" /\ arg.fn = "samples") => ret >= 1

---------------------------------------------------------------------------
(* raytrace from its entry to the colour it returns, and several raytrace *)
(* calls on one scene, each with its own rng, interleaved.                *)

\* The number of raytrace calls of a render.
NTasks == 2

\* The scenes rendered: nothing to hit, seen through a simple camera and
\* through depth-of-field cameras of 0 and 2 samples; a lit floor through a
\* closed aperture; through an open aperture a sphere behind the focal
\* point, which the ray from the lens point (3, 0, 4) hits and the rays from
\* (0, 3, 4) and from the centre miss; a floor lit indirectly from the
\* ceiling; and floors that mirror the sky.
RenderScenes ==
    {Scene(<< >>, << >>, AxisCamera(5), Sky),
     Scene(<< >>, << >>, DepthOfFieldCamera(AxisCamera(5), F(5), F(0), 0),
           Sky),
     Scene(<< Object(Body.floor, Mat.diffuse) >>, << Lamps.sun >>,
           DepthOfFieldCamera(AxisCamera(5), F(5), F(0), 2), Sky),
     Scene(<< Object(Body.target, Mat.diffuse) >>, << >>,
           DepthOfFieldCamera(AxisCamera(5), F(5), F(3), 2), Sky),
     Scene(<< Object(Body.floor, Mat.indirect),
              Object(Body.ceiling, Mat.diffuse) >>,
           << >>, AxisCamera(5), Sky),
     Scene(<< Object(Body.floor, Mat.dim) >>, << >>, AxisCamera(5), Sky),
     Scene(<< Object(Body.floor, Mat.fresnel) >>, << >>, AxisCamera(5),
           Sky)}

\* The raytrace calls made on a scene.  The rng yields what the scene
\* draws: lens points for a DepthOfFieldCamera (theta = 0 or pi/2 on the
\* rim), else directions for the IndirectPhongMaterial (r1 = 1/2 or 1/4 at
\* r2 = pi/2), else nothing; it yields its draws twice over, more than a
\* call takes.
\* The open aperture is traced through the centre of the image only.
RaytraceArgs(s) ==
    {Task(pos, sig, d \o d) :
       pos \in IF s.camera.class = "DepthOfField" /\ ~IsZero(s.camera.aperture)
               THEN {[x |-> F(0), y |-> F(0)]}
               ELSE {[x |-> F(0), y |-> F(0)], [x |-> Q(3, 4), y |-> F(0)]},
       sig \in IF s.camera.class = "SimplePerspective" /\ s.objects = << >>
               THEN {F(1), Q(1, 2)} ELSE {F(1)},
       d \in IF s.camera.class = "DepthOfField"
             THEN IF IsZero(s.camera.aperture)
                  THEN {<< Draw(F(1), F(1), F(0)), Draw(F(1), F(0), F(1)) >>,
                        << Draw(F(1), F(0), F(1)), Draw(F(1), F(1), F(0)) >>}
                  ELSE [1..2 -> {Draw(F(1), F(1), F(0)),
                                 Draw(F(1), F(0), F(1))}]
             ELSE IF Len(s.objects) = 2
                  THEN {<< Draw(Q(1, 2), F(0), F(1)),
                           Draw(Q(1, 2), F(0), F(1)) >>,
                        << Draw(Q(1, 2), F(0), F(1)),
                           Draw(Q(1, 4), F(0), F(1)) >>}
                  ELSE {<< >>}}

InitRender ==
    /\ scene \in RenderScenes
    /\ tasks \in [1..NTasks -> RaytraceArgs(scene)]
    /\ pixel = [pos |-> [x |-> F(0), y |-> F(0)], significance |-> F(1)]
    /\ sampleNo = 0
    /\ pc = "render"
    /\ ray = NoRay
    /\ significance = NaN
    /\ depth = 0
    /\ caller = NoCaller
    /\ hit = NoSceneHit
    /\ shade = NoShade
    /\ results = << >>
    /\ arg = NoArg
    /\ ret = NoArg

\* One rng for all the calls, that of the first.
RngShared(ts, p) == ts[1].rng

\* The rng a raytrace call passes on: its own argument.
RngOf(ts, p) == ts[p].rng

\* The calls accumulate into one res.
TracedAll(ts, p, t) ==
    [q \in DOMAIN ts |-> IF q = p THEN t ELSE [ts[q] EXCEPT !.res = t.res]]

\* The state of the calls after call p changed its own to t: no call
\* touches the arguments or locals of another.
Traced(ts, p, t) == [ts EXCEPT ![p] = t]

\* raytrace, call p: one pass of `for _ in 0..scene.camera.samples()`.
Pass(p) ==
    /\ tasks[p].pc = "raytrace"
    /\ tasks[p].sampleNo < Samples(scene.camera)
    /\ tasks' = Traced(tasks, p,
                       RaytracePass(scene, tasks[p], RngOf(tasks, p)))
    /\ UNCHANGED << scene, pixel, sampleNo, pc, ray, significance, depth,
                    caller, hit, shade, results, arg, ret >>

\* raytrace, call p: the loop is over, res / samples is returned.
Mean(p) ==
    /\ tasks[p].pc = "raytrace"
    /\ tasks[p].sampleNo >= Samples(scene.camera)
    /\ tasks' = Traced(tasks, p, Averaged(scene, tasks[p]))
    /\ UNCHANGED << scene, pixel, sampleNo, pc, ray, significance, depth,
                    caller, hit, shade, results, arg, ret >>

NextRender == \E p \in 1..NTasks : Pass(p) \/ Mean(p)

SpecRender == InitRender /\ [][NextRender]_vars

\* res after `res = res + colour` for the colours of the calls from the
\* i-th on.
RECURSIVE Total(_, _, _)
Total(calls, i, res) ==
    IF i > Len(calls) THEN res
    ELSE Total(calls, i + 1, CAdd(res, calls[i].color))

\* C16: raytrace makes one project and one ray_color call per sample of the
\* camera, each ray_color call with the significance raytrace was given and
\* depth 0, and returns the sum of the colours they returned divided by the
\* number of samples.
C16_MeanOfSamples ==
    \A p \in DOMAIN tasks :
        /\ Len(tasks[p].calls) = tasks[p].sampleNo
        /\ \A i \in DOMAIN tasks[p].calls :
              /\ tasks[p].calls[i].significance = tasks[p].significance
              /\ tasks[p].calls[i].depth = 0
              /\ scene.camera.class = "SimplePerspective"
                 => tasks[p].calls[i].ray = Project(scene.camera, tasks[p].pos)
        /\ tasks[p].pc = "done"
           => /\ Len(tasks[p].calls) = IF scene.camera.class = "DepthOfField"
                                       THEN scene.camera.samples ELSE 1
              /\ tasks[p].color
                 = CDivS(Total(tasks[p].calls, 1, BLACK),
                         F(Len(tasks[p].calls)))

\* A call returned the mean of two different colours.
C16_Witness ==
    \E p \in DOMAIN tasks :
        /\ tasks[p].pc = "done"
        /\ Len(tasks[p].calls) = 2
        /\ tasks[p].calls[1].color # tasks[p].calls[2].color
        /\ tasks[p].color # tasks[p].calls[1].color

MaxSamples == 4

P26 == 2 ^ 26

\* Where r / n lies in [0, 1): 0 at zero, 1 below a half, 2 at a half,
\* 3 above.
Fraction(r, n) ==
    IF r = 0 THEN 0
    ELSE IF 2 * r < n THEN 1
    ELSE IF 2 * r = n THEN 2 ELSE 3

RECURSIVE Round64(_, _, _, _)

\* The f64 nearest to (hi * 2^26 + lo + a fraction that lies where f says)
\* * 2^e, hi not zero: the significand is brought to 53 bits, the bits
\* that leave it going into the fraction, and rounded to the nearest, a
\* half to the even one.  What every f64 operation returns.
Round64(hi, lo, e, f) ==
    IF hi >= 2 * P26
    THEN Round64(hi \div 2, (hi % 2) * (P26 \div 2) + lo \div 2, e + 1,
                 2 * (lo % 2) + (IF f = 0 THEN 0 ELSE 1))
    ELSE IF hi < P26
    THEN Round64(2 * hi + (2 * lo) \div P26, (2 * lo) % P26, e - 1, f)
    ELSE IF ~ (f = 3 \/ (f = 2 /\ lo % 2 = 1))
    THEN [e |-> e, hi |-> hi, lo |-> lo]
    ELSE IF lo + 1 < P26 THEN [e |-> e, hi |-> hi, lo |-> lo + 1]
    ELSE IF hi + 1 < 2 * P26 THEN [e |-> e, hi |-> hi + 1, lo |-> 0]
    ELSE [e |-> e + 1, hi |-> P26, lo |-> 0]

\* x + y of f64 that are not zero, the last bit of x the lower by d places,
\* d up to 26: x is brought to the exponent of y.
Aligned(x, y, d) ==
    Round64(x.hi \div (2 ^ d) + y.hi
            + ((x.hi % (2 ^ d)) * (2 ^ (26 - d)) + x.lo \div (2 ^ d) + y.lo)
              \div P26,
            ((x.hi % (2 ^ d)) * (2 ^ (26 - d)) + x.lo \div (2 ^ d) + y.lo)
            % P26,
            y.e, Fraction(x.lo % (2 ^ d), 2 ^ d))

\* x + y of f64.
Add64(x, y) ==
    IF x.hi = 0 THEN y
    ELSE IF y.hi = 0 THEN x
    ELSE IF x.e <= y.e
    THEN IF y.e - x.e <= 26 THEN Aligned(x, y, y.e - x.e) ELSE Unrepresentable
    ELSE IF x.e - y.e <= 26 THEN Aligned(y, x, x.e - y.e) ELSE Unrepresentable

\* The sum is returned as it is.
DivNone(x, n) == x

\* x / n of f64, n a whole number below 16 as `samples() as f64` is:
\* long division of the significand, four zero bits put below it.
Div64(x, n) ==
    IF n = 0 THEN IF x.hi = 0 THEN NaN ELSE Inf(1)
    ELSE IF x.hi = 0 THEN x
    ELSE Round64((16 * x.hi + x.lo \div (2 ^ 22)) \div n,
                 (((16 * x.hi + x.lo \div (2 ^ 22)) % n) * P26
                  + 16 * (x.lo % (2 ^ 22))) \div n,
                 x.e - 4,
                 Fraction((((16 * x.hi + x.lo \div (2 ^ 22)) % n) * P26
                           + 16 * (x.lo % (2 ^ 22))) % n, n))

\* The f64 of a whole number below 16.
Nat64(k) ==
    IF k = 0 THEN [e |-> 0, hi |-> 0, lo |-> 0]
    ELSE Round64(k * (2 ^ 22), 0, -48, 0)

\* impl Add for Color
CAdd64(c, d) == Color(Add64(c.r, d.r), Add64(c.g, d.g), Add64(c.b, d.b))

\* impl Div<f64> for Color
CDiv64(c, n) == Color(Div64(c.r, n), Div64(c.g, n), Div64(c.b, n))

\* Background colours as a scene file writes them, in tenths: the literal
\* 0.k is the f64 nearest to k/10.
Tenths ==
    { Color(Div64(Nat64(c[1]), 10), Div64(Nat64(c[2]), 10),
            Div64(Nat64(c[3]), 10)) :
        c \in { << 1, 2, 3 >>, << 5, 5, 5 >>, << 0, 4, 10 >>, << 7, 8, 9 >>,
                << 6, 0, 1 >> } }

\* Scenes with no objects.
InitMean ==
    /\ scene \in { Scene(<< >>, << >>, cam, SolidColorBackground(c)) :
                     cam \in { AxisCamera(5) }
                             \cup { DepthOfFieldCamera(AxisCamera(5), F(5),
                                                       F(0), n) :
                                      n \in 0..MaxSamples },
                     c \in Tenths }
    /\ pixel = [pos |-> [x |-> F(0), y |-> F(0)], significance |-> F(1)]
    /\ sampleNo = 0
    /\ pc = "raytrace"
    /\ ray = NoRay
    /\ significance = NaN
    /\ depth = 0
    /\ caller = NoCaller
    /\ hit = NoSceneHit
    /\ shade = NoShade
    /\ results = << >>
    /\ arg = NoArg
    /\ ret = Color(Nat64(0), Nat64(0), Nat64(0))
    /\ tasks = << >>

\* raytrace, one pass of the loop: res = res + ray_color(scene,
\* &scene.camera.project(pos, rng), significance, 0, rng).
Sample ==
    /\ pc = "raytrace"
    /\ sampleNo < Samples(scene.camera)
    /\ ray' = CameraProject(scene.camera, pixel.pos, Draw(F(0), F(1), F(0)))
    /\ significance' = pixel.significance
    /\ hit' = SceneIntersect(scene.objects, ray')
    /\ ret' = CAdd64(ret, IF hit'.obj = 0
                          THEN BackgroundColor(scene.background, ray')
                          ELSE Unrepresentable)
    /\ sampleNo' = sampleNo + 1
    /\ UNCHANGED << scene, pixel, pc, depth, caller, shade, results, arg,
                    tasks >>

\* raytrace: res / scene.camera.samples() as f64.
Average ==
    /\ pc = "raytrace"
    /\ sampleNo >= Samples(scene.camera)
    /\ ret' = CDiv64(ret, Samples(scene.camera))
    /\ pc' = "done"
    /\ UNCHANGED << scene, pixel, sampleNo, ray, significance, depth, caller,
                    hit, shade, results, arg, tasks >>

NextMean == Sample \/ Average

SpecMean == InitMean /\ [][NextMean]_vars

\* How many units in the last place x lies from y, two f64 of one
\* exponent.
Ulps(x, y) ==
    IF (x.hi - y.hi) * P26 + (x.lo - y.lo) >= 0
    THEN (x.hi - y.hi) * P26 + (x.lo - y.lo)
    ELSE (y.hi - x.hi) * P26 + (y.lo - x.lo)

Channels(a) ==
    IF a.fn = "rgb" THEN << a.color.r, a.color.g, a.color.b >>
    ELSE << a.color.b, a.color.g, a.color.r >>

\* C21: rgb and bgr return three bytes in 0..255, 0 for a component <= 0 and
\* 255 for a component >= 1, a larger component never giving a smaller
\* byte, and the bytes of bgr are those of rgb in reverse order.
C21_BytesClamped ==
    (pc = "called" /\ arg.fn \in {"rgb", "bgr"})
    => /\ \A i \in 1..3 :
            /\ ret[i] \in 0..255
            /\ FLe(Channels(arg)[i], F(0)) => ret[i] = 0
            /\ FGe(Channels(arg)[i], F(1)) => ret[i] = 255
            /\ \A w \in Components :
                  /\ FLe(w, Channels(arg)[i])
                     => \A y \in clamp_color_val(w) : y <= ret[i]
                  /\ FGe(w, Channels(arg)[i])
                     => \A y \in clamp_color_val(w) : y >= ret[i]
       /\ arg.fn = "bgr" => << ret[3], ret[2], ret[1] >> \in Rgb(arg.color)
       /\ arg.fn = "rgb" => << ret[3], ret[2], ret[1] >> \in Bgr(arg.color)

\* bgr of a colour with r below 0, g above 1 and b = 1/3 returned
\* [85, 255, 0].
C21_Witness ==
    /\ pc = "called"
    /\ arg.fn = "bgr"
    /\ FLt(arg.color.r, F(0))
    /\ FGt(arg.color.g, F(1))
    /\ ret = << 85, 255, 0 >>

\* C23: a material issues no recursive ray_color call whose significance,
\* the incoming significance times the weight of the branch, is at most
\* MIN_SIGNIFICANCE: such a branch is skipped.
C23_InsignificantBranchSkipped ==
    (pc = "called" /\ arg.fn = "color") =>
        \A i \in DOMAIN ret.calls :
            FGt(ret.calls[i].significance, MIN_SIGNIFICANCE)

\* C25: Texture.sample never indexes outside the texture's data: a call
\* does not panic and reads only texels at(px, py) with 0 <= px < width and
\* 0 <= py < height, for every texture of at least 1 x 1 texels and all
\* real coordinates, x = 1 and y = 1 included.
C25_ReadsInsideTexture ==
    (pc = "called" /\ arg.fn = "sample") =>
        /\ ~ret.panicked
        /\ \A i \in DOMAIN ret.reads :
              /\ 0 <= ret.reads[i].x /\ ret.reads[i].x < arg.texture.width
              /\ 0 <= ret.reads[i].y /\ ret.reads[i].y < arg.texture.height

\* The bilinear interpolation of the four reads a = << at(x0, y0),
\* at(x0, y1), at(x1, y0), at(x1, y1) >>.
Bilinear(a, xx, yy) ==
    CAdd(CAdd(CScale(a[1].color, FMul(FSub(F(1), xx), FSub(F(1), yy))),
              CScale(a[3].color, FMul(xx, FSub(F(1), yy)))),
         CAdd(CScale(a[2].color, FMul(FSub(F(1), xx), yy)),
              CScale(a[4].color, FMul(xx, yy))))

EqualColors(c, e) == FEq(c.r, e.r) /\ FEq(c.g, e.g) /\ FEq(c.b, e.b)

\* C26: Texture.sample returns (1-xx)(1-yy)*at(x0,y0) + xx*(1-yy)*at(x1,y0)
\* + (1-xx)*yy*at(x0,y1) + xx*yy*at(x1,y1), xx and yy the fractional parts
\* of the horizontal and vertical texel coordinates; with xx = yy = 0 it
\* returns at(x0, y0).
C26_BilinearInterpolation ==
    (pc = "called" /\ arg.fn = "sample" /\ ~ret.panicked) =>
        /\ EqualColors(ret.color, Bilinear(ret.reads, ret.xx, ret.yy))
        /\ (IsZero(ret.xx) /\ IsZero(ret.yy)
               => EqualColors(ret.color, ret.reads[1].color))

\* The largest of the magnitudes of the components of d.
IsLargest(m, d) == FGe(m, FAbs(d.x)) /\ FGe(m, FAbs(d.y)) /\ FGe(m, FAbs(d.z))

\* The component of d on the axis of a face, positive on the face's side.
Toward(face, d) ==
    CASE face = "px" -> d.x [] face = "nx" -> FNeg(d.x)
      [] face = "py" -> d.y [] face = "ny" -> FNeg(d.y)
      [] face = "pz" -> d.z [] face = "nz" -> FNeg(d.z)

\* C24: for every direction with a nonzero component SkyboxBackground.color
\* samples one of the six faces, the positive or negative face of an axis
\* whose component has the largest magnitude, also when two or three
\* components tie for it; it never returns the constant black.
C24_SkyboxFaceSampled ==
    (pc = "called" /\ arg.fn = "skybox"
        /\ ~(IsZero(arg.ray.direction.x) /\ IsZero(arg.ray.direction.y)
               /\ IsZero(arg.ray.direction.z))) =>
        /\ ret.face # "none"
        /\ FGt(Toward(ret.face, arg.ray.direction), F(0))
        /\ IsLargest(Toward(ret.face, arg.ray.direction), arg.ray.direction)

\* Exact arithmetic on naturals below 2^47 in the form hi * 2^16 + lo:
\* 3 * w, a + n and a * n for small n, and the order.
Exact3(w) == U32(3 * w.hi + (3 * w.lo) \div 65536, (3 * w.lo) % 65536)
ExactPlus(a, n) == U32(a.hi + (a.lo + n) \div 65536, (a.lo + n) % 65536)
ExactTimes(a, n) == U32(a.hi * n + (a.lo * n) \div 65536, (a.lo * n) % 65536)
AtMost(a, b) == a.hi < b.hi \/ (a.hi = b.hi /\ a.lo <= b.lo)

\* The u32 of four bytes in little endian.
Decoded(b) == U32(b[3] + 256 * b[4], b[1] + 256 * b[2])

\* C27: for every u32 width, write_header returns the smallest multiple of
\* 4 that is at least 3 * width, and the pixel-array size in the header is
\* that stride times height; no 32-bit overflow changes the result.
C27_RowStride ==
    (pc = "called" /\ arg.fn = "write_header" /\ ret.result # "Err") =>
        /\ ret.result = "Ok"
        /\ ret.bytewidth.lo % 4 = 0
        /\ AtMost(Exact3(arg.width), ret.bytewidth)
        /\ ~AtMost(ExactPlus(Exact3(arg.width), 4), ret.bytewidth)
        /\ Decoded(ret.header.pasize)
              = ExactTimes(ret.bytewidth, arg.height.lo)

---------------------------------------------------------------------------
(* main: the header and the pixel loop of out.bmp *)

\* The largest width and height tried besides the program's own 100 x 100.
MaxWidth == 7
MaxHeight == 2

\* let bytewidth = (3 * width + 3) & 0xFFFFFFFC, on widths far below 2^32.
MainBytewidth(width) == (3 * width + 3) - ((3 * width + 3) % 4)

\* let padding = match width & 0x3 {..}: the length of the slice of zeros.
PaddingLen(width) ==
    CASE width % 4 = 0 -> 0
      [] width % 4 = 1 -> 3
      [] width % 4 = 2 -> 2
      [] width % 4 = 3 -> 1

\* main entered: width and height as the program has them, and smaller.
InitWrite ==
    /\ NoTrace
    /\ pc = "main"
    /\ arg \in { [fn |-> "main", width |-> w, height |-> h] :
                   w \in 0..MaxWidth, h \in 0..MaxHeight }
               \cup { [fn |-> "main", width |-> 100, height |-> 100] }
    /\ ret = NoArg

\* The header: bytewidth and pasize computed and declared, 54 bytes written;
\* written counts the bytes that follow them.
MainHeader ==
    /\ pc = "main"
    /\ ret' = [bytewidth |-> MainBytewidth(arg.width),
               pasize |-> MainBytewidth(arg.width) * arg.height,
               y |-> 0, x |-> 0, written |-> 0]
    /\ pc' = "rows"
    /\ UNCHANGED << scene, pixel, sampleNo, ray, significance, depth, caller,
                    hit, shade, results, arg, tasks >>

\* for x in 0..width: f.write(&fg) or f.write(&bg), 3 bytes
WritePixel ==
    /\ pc = "rows"
    /\ ret.y < arg.height
    /\ ret.x < arg.width
    /\ ret' = [ret EXCEPT !.x = @ + 1, !.written = @ + 3]
    /\ UNCHANGED << scene, pixel, sampleNo, pc, ray, significance, depth,
                    caller, hit, shade, results, arg, tasks >>

\* f.write(padding) at the end of the row
WritePadding ==
    /\ pc = "rows"
    /\ ret.y < arg.height
    /\ ret.x = arg.width
    /\ ret' = [ret EXCEPT !.x = 0, !.y = @ + 1,
                          !.written = @ + PaddingLen(arg.width)]
    /\ UNCHANGED << scene, pixel, sampleNo, pc, ray, significance, depth,
                    caller, hit, shade, results, arg, tasks >>

\* for y in 0..height is over and main returns
MainReturn ==
    /\ pc = "rows"
    /\ ret.y = arg.height
    /\ pc' = "done"
    /\ UNCHANGED << scene, pixel, sampleNo, ray, significance, depth, caller,
                    hit, shade, results, arg, ret, tasks >>

NextWrite == MainHeader \/ WritePixel \/ WritePadding \/ MainReturn

SpecWrite == InitWrite /\ [][NextWrite]_vars

---------------------------------------------------------------------------
(* deserialize: the tokenizer and the parser of scene descriptions *)

\* A text is a sequence of pieces: a piece is one character, or a run of
\* characters that the tokenizer takes as a whole with take_while, an
\* identifier or a number; no two runs are adjacent.  Characters:
Punctuation == {"{", "}", "[", "]", "(", ")", ":", ","}
Whitespace == {" ", "\n"}
\* Runs of number characters that f64::from_str accepts, and one it
\* rejects.
Numerals == {"0", "1", "2", "-1", "0.5", "45"}
BadNumerals == {"1.2.3"}
\* A character that starts no token.
Stray == {"@", "*"}
IsWord(c) ==
    c \notin Punctuation \cup Whitespace \cup Numerals \cup BadNumerals
             \cup Stray \cup {"#", "/"}

\* enum Token
Tok(t, s) == [t |-> t, s |-> s]
PunctuationToken(c) ==
    CASE c = "{" -> Tok("LBrace", "") [] c = "}" -> Tok("RBrace", "")
      [] c = "[" -> Tok("LBracket", "") [] c = "]" -> Tok("RBracket", "")
      [] c = "(" -> Tok("LParen", "") [] c = ")" -> Tok("RParen", "")
      [] c = ":" -> Tok("Colon", "") [] c = "," -> Tok("Comma", "")

\* LL1<Tokenizer>.peeked: no token peeked, or the Option<Token> that
\* Tokenizer::next returned; None stays None, for Tokenizer::next at the
\* end of the text or after an error returns None again and changes
\* nothing.
Unpeeked == Tok("unpeeked", "")
NoToken == Tok("None", "")

\* The least element of a nonempty set of integers.
Least(S) == CHOOSE i \in S : \A j \in S : i <= j

\* Acceptor::skip_while: the position of the first piece from pos on that
\* is in stops, the end of the text when there is none.
SkipUntil(text, pos, stops) ==
    Least({ i \in pos..(Len(text) + 1) :
              i = Len(text) + 1 \/ text[i] \in stops })

\* self.acceptor.skip_while(|c| c.is_whitespace())
SkipWhitespace(text, pos) ==
    Least({ i \in pos..(Len(text) + 1) :
              i = Len(text) + 1 \/ text[i] \notin Whitespace })

\* Acceptor::take and Acceptor::skip: the position after one more piece.
Taken(text, pos) == IF pos <= Len(text) THEN pos + 1 ELSE pos
\* What take returns: a character, or "" for None.
PieceAt(text, pos) == IF pos <= Len(text) THEN text[pos] ELSE ""

\* Tokenizer::next returns: the peeked token of the parser is set.
Yielded(st, pos, token) == [st EXCEPT !.pos = pos, !.peeked = token]
Errored(st, pos, etype) ==
    [st EXCEPT !.pos = pos, !.peeked = NoToken, !.error = etype]

\* Tokenizer::next from the first character c after the whitespace, at
\* position p, for the arms that return.
TokenizerReturns(st, text, p, c) ==
    IF c = "" THEN Yielded(st, p, NoToken)
    ELSE IF c \in Punctuation THEN Yielded(st, p + 1, PunctuationToken(c))
    ELSE IF c \in Numerals THEN Yielded(st, p + 1, Tok("Number", c))
    ELSE IF c \in BadNumerals THEN Errored(st, p + 1, "InvalidNumber")
    ELSE IF c \in Stray THEN Errored(st, p, "InvalidToken")
    ELSE IF c = "/"
    THEN Errored(st, Taken(text, p + 1), "InvalidToken")
    ELSE Yielded(st, p + 1, Tok("Identifier", c))

\* One turn of the loop of the arm Some('*'):
\*   self.acceptor.skip_while(|c| (*c) != '*'); self.acceptor.skip();
\*   if let Some('/') = self.acceptor.take() {break}
\* the position after it, and whether it breaks.
AfterStar(text, pos) == Taken(text, SkipUntil(text, pos, {"*"}))
CommentBreaks(text, pos) == PieceAt(text, AfterStar(text, pos)) = "/"
AfterTurn(text, pos) == Taken(text, AfterStar(text, pos))

\* The parsers as instruction lists.  An instruction expects a token,
\* calls a parser, or is the loop of fn_parse_struct!, the match of
\* fn_parse_box!, the loop of parse_vec, the match of parse_ang or an
\* or_else.
Ins(op, a, b) == [op |-> op, a |-> a, b |-> b]
Expect(t) == Ins("expect", t, "")
Invoke(p) == Ins("call", p, "")

\* fn_parse_struct!: the fields of each struct parser and their parsers.
StructFields ==
    [parse_sphere |-> [center |-> "parse_pnt3", radius |-> "parse_f64"],
     parse_plane |-> [point |-> "parse_pnt3", normal |-> "parse_vec3"],
     parse_phong_material |->
         [diffuse |-> "parse_color", specular |-> "parse_color",
          exponent |-> "parse_f64", ambient |-> "parse_color"],
     parse_fresnel_material |->
         [diffuse |-> "parse_color", specular |-> "parse_color",
          exponent |-> "parse_f64", ambient |-> "parse_color",
          ior |-> "parse_f64"],
     parse_object |->
         [bounds |-> "parse_box_shape", material |-> "parse_box_material"],
     parse_light |->
         [model |-> "parse_box_light_model", color |-> "parse_color"],
     parse_point_light |-> [location |-> "parse_pnt3"],
     parse_directional_light |-> [direction |-> "parse_vec3"],
     parse_scene |->
         [objects |-> "parse_vec_object", lights |-> "parse_vec_light",
          camera |-> "parse_box_camera"]]

\* fn_parse_box!: the classes of each box parser and their parsers.
BoxClasses ==
    [parse_box_shape |-> [Sphere |-> "parse_sphere", Plane |-> "parse_plane"],
     parse_box_camera |-> [SimplePerspectiveCamera |-> "parse_spc"],
     parse_box_material |->
         [PhongMaterial |-> "parse_phong_material",
          FresnelMaterial |-> "parse_fresnel_material"],
     parse_box_light_model |->
         [PointLight |-> "parse_point_light",
          DirectionalLight |-> "parse_directional_light"]]

\* ( x , y , z ) of parse_vec3, parse_pnt3 and parse_color
Triple ==
    << Expect("LParen"), Invoke("parse_f64"), Expect("Comma"),
       Invoke("parse_f64"), Expect("Comma"), Invoke("parse_f64"),
       Expect("RParen") >>

\* fn_parse_function! with process_fn_args!: name ( parser , .. , parser )
Separated(params) ==
    [i \in 1..(2 * Len(params) - 1) |->
        IF i % 2 = 1 THEN Invoke(params[(i + 1) \div 2]) ELSE Expect("Comma")]
FunctionCode(fname, params) ==
    << Ins("expect", "Identifier", fname), Expect("LParen") >>
    \o Separated(params) \o << Expect("RParen") >>

Code(p) ==
    CASE p = "parse_f64" -> << Expect("Number") >>
      [] p = "parse_ang" -> << Invoke("parse_f64"), Ins("unit", "", "") >>
      [] p \in {"parse_vec3", "parse_pnt3"} -> Triple
      [] p = "parse_color" -> << Ins("expect", "Identifier", "rgb") >> \o Triple
      [] p \in DOMAIN StructFields ->
            << Expect("LBrace"), Ins("fields", p, "") >>
      [] p \in DOMAIN BoxClasses -> << Ins("class", p, "") >>
      [] p = "parse_vec_object" ->
            << Expect("LBracket"), Ins("elems", "parse_object", "") >>
      [] p = "parse_vec_light" ->
            << Expect("LBracket"), Ins("elems", "parse_light", "") >>
      [] p = "parse_new_spc" ->
            FunctionCode("new", << "parse_pnt3", "parse_vec3", "parse_vec3",
                                   "parse_f64" >>)
      [] p = "parse_look_at_spc" ->
            FunctionCode("look_at", << "parse_pnt3", "parse_vec3",
                                       "parse_vec3", "parse_ang",
                                       "parse_f64" >>)
      [] p = "parse_spc" ->
            << Ins("orelse", "parse_new_spc", "parse_look_at_spc") >>

\* A parser being run: its instructions, the next of them, the fields a
\* struct parser has set, and the parser or_else runs should it fail.
Frame(code, alt) == [code |-> code, i |-> 1, seen |-> {}, alt |-> alt]

\* The parser on top of the stack and its next instruction.
Top(st) == st.stack[Len(st.stack)]
Returning(st) == Top(st).i > Len(Top(st).code)
Current(st) == Top(st).code[Top(st).i]
NeedsToken(st) ==
    /\ st.stack # << >>
    /\ ~Returning(st)
    /\ Current(st).op \in {"expect", "unit", "class", "fields", "elems"}

\* The stack with the top parser advanced by n instructions, its set
\* fields grown by fields, and the frames pushed on it.
Advanced(st, n, fields, pushed) ==
    [st EXCEPT !.stack =
        [@ EXCEPT ![Len(st.stack)] = [@ EXCEPT !.i = @ + n,
                                        !.seen = @ \cup fields]]
        \o pushed]

\* Acceptor::take of the peeked token.
Consumed(st) == [st EXCEPT !.peeked = Unpeeked]

\* Err(SyntaxError { etype, .. }) returned with try! from parser to parser:
\* up to the nearest or_else, whose closure then runs on the tokens as they
\* are, or out of parse_scene.
Handlers(st) == { k \in DOMAIN st.stack : st.stack[k].alt # "" }
Greatest(S) == CHOOSE i \in S : \A j \in S : j <= i
Failed(st, etype) ==
    IF Handlers(st) = {}
    THEN [st EXCEPT !.stack = << >>, !.result = etype]
    ELSE [st EXCEPT !.stack =
             SubSeq(@, 1, Greatest(Handlers(st)) - 1)
             \o << Frame(Code(st.stack[Greatest(Handlers(st))].alt), "") >>]

\* toks.expect(..), parse_f64 and the other fixed tokens
Expected(st, ins) ==
    IF st.peeked.t = ins.a /\ (ins.b = "" \/ st.peeked.s = ins.b)
    THEN Advanced(Consumed(st), 1, {}, << >>)
    ELSE Failed(st, "Expect")

\* parse_ang: match unit.as_ref()
UnitMatched(st) ==
    IF st.peeked.t # "Identifier" THEN Failed(st, "Expect")
    ELSE IF st.peeked.s \in {"deg", "rad"}
    THEN Advanced(Consumed(st), 1, {}, << >>)
    ELSE Failed(Consumed(st), "NoClass")

\* fn_parse_box!: match class.as_ref()
ClassMatched(st, classes) ==
    IF st.peeked.t # "Identifier" THEN Failed(st, "Expect")
    ELSE IF st.peeked.s \in DOMAIN classes
    THEN Advanced(Consumed(st), 1, {},
                  << Frame(Code(classes[st.peeked.s]), "") >>)
    ELSE Failed(Consumed(st), "NoClass")

\* fn_parse_struct!: one turn of the while loop, or its end and the match
\* on the field holders.
FieldMatched(st, fields) ==
    IF st.peeked.t = "RBrace"
    THEN (IF Top(st).seen = DOMAIN fields
          THEN Advanced(Consumed(st), 1, {}, << >>)
          ELSE Failed(Consumed(st), "Missing"))
    ELSE IF st.peeked.t # "Identifier" THEN Failed(st, "Expect")
    ELSE IF st.peeked.s \in DOMAIN fields
    THEN Advanced(Consumed(st), 0, {st.peeked.s},
                  << Frame(<< Expect("Colon"), Invoke(fields[st.peeked.s]) >>,
                           "") >>)
    ELSE Failed(Consumed(st), "Undefined")

\* parse_vec: one turn of the while loop, or its end.
ElementMatched(st, parser) ==
    IF st.peeked.t = "RBracket"
    THEN Advanced(Consumed(st), 1, {}, << >>)
    ELSE Advanced(st, 0, {}, << Frame(Code(parser), "") >>)

\* deserialize entered: the tokenizer at the start of the text, nothing
\* peeked, parse_scene called.  open and closed are the positions after
\* the "/*" and the "*/" of the last block comment, turn the parity of the
\* turns its loop has taken.
Deserializing ==
    [pos |-> 1, error |-> "", peeked |-> Unpeeked,
     stack |-> << Frame(Code("parse_scene"), "") >>, result |-> "",
     open |-> 0, closed |-> 0, turn |-> 0]

\* The texts deserialized.  ( x , y , z ), rgb( r , g , b ), a class with
\* its fields in braces, an object, a light, the two camera functions and
\* a scene with a place between its objects and its lights.
TripleText(x, y, z) == << "(", x, ",", y, ",", z, ")" >>
ColorText(r, g, b) == << "rgb" >> \o TripleText(r, g, b)
ClassText(class, fields) == << class, "{" >> \o fields \o << "}" >>
SphereFields ==
    << "center", ":" >> \o TripleText("0", "0", "0") \o << "radius", ":", "1" >>
PlaneFields ==
    << "point", ":" >> \o TripleText("0", "-1", "0")
    \o << "normal", ":" >> \o TripleText("0", "1", "0")
PhongFields ==
    << "diffuse", ":" >> \o ColorText("1", "0", "0")
    \o << "specular", ":" >> \o ColorText("0", "0", "0")
    \o << "exponent", ":", "1", " ", "ambient", ":" >>
    \o ColorText("0", "0", "0")
FresnelFields == PhongFields \o << "ior", ":", "2" >>
ObjectText(shape, material) ==
    << "{", "bounds", ":" >> \o shape \o << "material", ":" >> \o material
    \o << "}" >>
LightText(model, color) ==
    << "{", "model", ":" >> \o model \o color \o << "}" >>
LightColor == << "color", ":" >> \o ColorText("1", "1", "1")
PointLightText ==
    ClassText("PointLight",
              << "location", ":" >> \o TripleText("0", "2", "0"))
DirectionalLightText ==
    ClassText("DirectionalLight",
              << "direction", ":" >> \o TripleText("0", "-1", "0"))
CameraNew(class) ==
    << "camera", ":", class, " ", "new", "(" >> \o TripleText("0", "0", "2")
    \o << "," >> \o TripleText("0", "0", "-1") \o << "," >>
    \o TripleText("0", "1", "0") \o << ",", "1", ")" >>
CameraLookAt(unit) ==
    << "camera", ":", "SimplePerspectiveCamera", " ", "look_at", "(" >>
    \o TripleText("0", "0", "0") \o << "," >> \o TripleText("0", "0", "-1")
    \o << "," >> \o TripleText("0", "1", "0")
    \o << ",", "45", " ", unit, ",", "1", ")" >>
SceneText(objects, between, lights, camera) ==
    << "{", "objects", ":", "[" >> \o objects \o << "]" >> \o between
    \o << "lights", ":", "[" >> \o lights \o << "]" >> \o camera \o << "}" >>

Ball ==
    ObjectText(ClassText("Sphere", SphereFields),
               ClassText("PhongMaterial", PhongFields))
Floor ==
    ObjectText(ClassText("Plane", PlaneFields),
               ClassText("FresnelMaterial", FresnelFields))
Lamp == LightText(PointLightText, LightColor)
Sun == LightText(DirectionalLightText, LightColor)
Described(defect, text) == [fn |-> "deserialize", defect |-> defect, text |-> text]

\* Texts without a defect, with and without comments.
GoodTexts ==
    { Described("none", t) : t \in
        { SceneText(Ball, << >>, Lamp, CameraNew("SimplePerspectiveCamera")),
          SceneText(Floor, << >>, Sun, CameraLookAt("deg")),
          SceneText(<< >>, << "/", "*", " ", "a", " ", "*", "/" >>, << >>,
                    CameraLookAt("rad")),
          SceneText(<< >>, << "#", " ", "a", "\n", "/", "/", "a", "*", "/",
                              "\n" >>, << >>,
                    CameraNew("SimplePerspectiveCamera")),
          SceneText(<< >>, << "/", "*", "/", "a", "*", " ", "*", "/" >>,
                    << >>, CameraNew("SimplePerspectiveCamera")),
          SceneText(<< >>, << "/", "*", " ", "a", " ", "*", "*", "/" >>, Lamp,
                    << "/", "*", " ", "b", " ", "*", "/" >>
                    \o CameraNew("SimplePerspectiveCamera")),
          SceneText(<< >>, << "/", "*", " ", "a", " ", "*", "*", "/" >>, Lamp,
                    CameraNew("SimplePerspectiveCamera")) } }

\* Texts with a class that no parser knows, a field that the struct does
\* not have, or a field left out; the last of the fields is announced by a
\* comment.
BadTexts ==
    { Described("class", t) : t \in
        { SceneText(ObjectText(ClassText("Cube", SphereFields),
                               ClassText("PhongMaterial", PhongFields)),
                    << >>, << >>, CameraNew("SimplePerspectiveCamera")),
          SceneText(ObjectText(ClassText("Sphere", SphereFields),
                               ClassText("TransparentMaterial", PhongFields)),
                    << >>, << >>, CameraNew("SimplePerspectiveCamera")),
          SceneText(<< >>, << >>, LightText(ClassText("SpotLight", << >>),
                                            LightColor),
                    CameraNew("SimplePerspectiveCamera")),
          SceneText(<< >>, << >>, << >>, CameraNew("DepthOfFieldCamera")) } }
    \cup
    { Described("field", t) : t \in
        { SceneText(ObjectText(ClassText("Sphere", SphereFields
                                                   \o << " ", "size", ":",
                                                         "2" >>),
                               ClassText("PhongMaterial", PhongFields)),
                    << >>, << >>, CameraNew("SimplePerspectiveCamera")),
          SceneText(<< >>, << "background", ":" >> \o ColorText("0", "0", "0"),
                    << >>, CameraNew("SimplePerspectiveCamera")),
          SceneText(<< >>, << "/", "*", "*", "*", "/", "background", ":" >>
                           \o ColorText("0", "0", "0")
                           \o << "/", "*", " ", "*", "/" >>,
                    << >>, CameraNew("SimplePerspectiveCamera")) } }
    \cup
    { Described("missing", t) : t \in
        { SceneText(ObjectText(ClassText("Sphere",
                                         << "center", ":" >>
                                         \o TripleText("0", "0", "0")),
                               ClassText("PhongMaterial", PhongFields)),
                    << >>, << >>, CameraNew("SimplePerspectiveCamera")),
          SceneText(<< >>, << >>, LightText(PointLightText, << >>),
                    CameraNew("SimplePerspectiveCamera")),
          SceneText(Ball, << >>, Lamp, << >>) } }

\* Texts with another error: a unit that parse_ang does not know, a token
\* out of place, characters that make no token, a lone '/', a comment that
\* is not closed, and the empty text.
OtherTexts ==
    { Described("other", t) : t \in
        { SceneText(<< >>, << >>, << >>, CameraLookAt("grad")),
          SceneText(<< >>, << "," >>, << >>,
                    CameraNew("SimplePerspectiveCamera")),
          SceneText(<< >>, << "@" >>, << >>,
                    CameraNew("SimplePerspectiveCamera")),
          SceneText(<< >>, << "1.2.3", " " >>, << >>,
                    CameraNew("SimplePerspectiveCamera")),
          << "{", "objects", ":", "[", "]", " ", "/" >>,
          << "{", "objects", ":", "[", "]", " ", "/", " ", "/" >>,
          SceneText(<< >>, << "/", "*", " ", "a", " " >>, << >>,
                    CameraNew("SimplePerspectiveCamera")),
          << "{", "objects", ":", "[", "]", "/", "*" >>,
          << >> } }

\* The position of the first "*", "/" from pos on, the end of the text
\* when there is none.
FirstClosing(text, pos) ==
    Least({ i \in pos..(Len(text) + 1) :
              \/ i = Len(text) + 1
              \/ (text[i] = "*" /\ PieceAt(text, i + 1) = "/") })

InitLoad ==
    /\ NoTrace
    /\ pc = "parse"
    /\ arg \in GoodTexts \cup BadTexts \cup OtherTexts
    /\ ret = Deserializing

\* LL1::peek of the parser with nothing peeked: Tokenizer::next is called.
Peek ==
    /\ pc = "parse"
    /\ NeedsToken(ret)
    /\ ret.peeked = Unpeeked
    /\ pc' = "next"
    /\ UNCHANGED << scene, pixel, sampleNo, ray, significance, depth, caller,
                    hit, shade, results, arg, ret, tasks >>

\* Tokenizer::next: the whitespace skipped, a '#' or "//" comment skipped
\* to the end of its line, and self.next().
LineComment ==
    /\ pc = "next"
    /\ \/ PieceAt(arg.text, SkipWhitespace(arg.text, ret.pos)) = "#"
       \/ /\ PieceAt(arg.text, SkipWhitespace(arg.text, ret.pos)) = "/"
          /\ PieceAt(arg.text, SkipWhitespace(arg.text, ret.pos) + 1) = "/"
    /\ ret' = [ret EXCEPT !.pos =
                  SkipUntil(arg.text, SkipWhitespace(arg.text, @), {"\n"})]
    /\ UNCHANGED << scene, pixel, sampleNo, pc, ray, significance, depth,
                    caller, hit, shade, results, arg, tasks >>

\* Tokenizer::next: the whitespace skipped, '/' discarded and '*' taken:
\* the loop of the block comment is entered.
OpenComment ==
    /\ pc = "next"
    /\ PieceAt(arg.text, SkipWhitespace(arg.text, ret.pos)) = "/"
    /\ PieceAt(arg.text, SkipWhitespace(arg.text, ret.pos) + 1) = "*"
    /\ ret' = [ret EXCEPT !.pos = SkipWhitespace(arg.text, @) + 2,
                          !.open = SkipWhitespace(arg.text, ret.pos) + 2,
                          !.closed = 0]
    /\ pc' = "comment"
    /\ UNCHANGED << scene, pixel, sampleNo, ray, significance, depth, caller,
                    hit, shade, results, arg, tasks >>

\* One turn of the loop of the block comment; after the break, self.next().
\* At the end of the text a turn takes nothing and does not break.
BlockComment ==
    /\ pc = "comment"
    /\ ret' = [ret EXCEPT !.pos = AfterTurn(arg.text, @),
                          !.closed = IF CommentBreaks(arg.text, ret.pos)
                                     THEN AfterTurn(arg.text, ret.pos)
                                     ELSE 0,
                          !.turn = IF CommentBreaks(arg.text, ret.pos)
                                   THEN 0 ELSE 1 - @]
    /\ pc' = IF CommentBreaks(arg.text, ret.pos) THEN "next" ELSE "comment"
    /\ UNCHANGED << scene, pixel, sampleNo, ray, significance, depth, caller,
                    hit, shade, results, arg, tasks >>

\* Tokenizer::next: the whitespace skipped and a token, None at the end of
\* the text, or None with self.error set returned.
TokenizerNext ==
    /\ pc = "next"
    /\ PieceAt(arg.text, SkipWhitespace(arg.text, ret.pos)) # "#"
    /\ ~(/\ PieceAt(arg.text, SkipWhitespace(arg.text, ret.pos)) = "/"
          /\ PieceAt(arg.text, SkipWhitespace(arg.text, ret.pos) + 1)
                \in {"/", "*"})
    /\ ret' = TokenizerReturns(ret, arg.text,
                               SkipWhitespace(arg.text, ret.pos),
                               PieceAt(arg.text,
                                       SkipWhitespace(arg.text, ret.pos)))
    /\ pc' = "parse"
    /\ UNCHANGED << scene, pixel, sampleNo, ray, significance, depth, caller,
                    hit, shade, results, arg, tasks >>

\* A parser calls a parser, with or without or_else.
ParserCall ==
    /\ pc = "parse"
    /\ ret.stack # << >>
    /\ ~Returning(ret)
    /\ Current(ret).op \in {"call", "orelse"}
    /\ ret' = Advanced(ret, 1, {},
                       << Frame(Code(Current(ret).a), Current(ret).b) >>)
    /\ UNCHANGED << scene, pixel, sampleNo, pc, ray, significance, depth,
                    caller, hit, shade, results, arg, tasks >>

\* A parser returns Ok to the parser that called it.
ParserReturn ==
    /\ pc = "parse"
    /\ ret.stack # << >>
    /\ Returning(ret)
    /\ ret' = [ret EXCEPT !.stack = SubSeq(@, 1, Len(@) - 1)]
    /\ UNCHANGED << scene, pixel, sampleNo, pc, ray, significance, depth,
                    caller, hit, shade, results, arg, tasks >>

\* A parser looks at the peeked token: expect, the match of parse_ang, of
\* fn_parse_box!, and the loops of fn_parse_struct! and parse_vec.
ParserToken ==
    /\ pc = "parse"
    /\ NeedsToken(ret)
    /\ ret.peeked # Unpeeked
    /\ ret' = CASE Current(ret).op = "expect" -> Expected(ret, Current(ret))
                [] Current(ret).op = "unit" -> UnitMatched(ret)
                [] Current(ret).op = "class" ->
                      ClassMatched(ret, BoxClasses[Current(ret).a])
                [] Current(ret).op = "fields" ->
                      FieldMatched(ret, StructFields[Current(ret).a])
                [] Current(ret).op = "elems" ->
                      ElementMatched(ret, Current(ret).a)
    /\ UNCHANGED << scene, pixel, sampleNo, pc, ray, significance, depth,
                    caller, hit, shade, results, arg, tasks >>

\* parse_scene has returned: deserialize returns the tokenizer's error if
\* there is one, the result of parse_scene if not.
DeserializeReturn ==
    /\ pc = "parse"
    /\ ret.stack = << >>
    /\ ret' = [ret EXCEPT !.result = IF ret.error # "" THEN ret.error
                                     ELSE IF @ = "" THEN "Ok" ELSE @]
    /\ pc' = "done"
    /\ UNCHANGED << scene, pixel, sampleNo, ray, significance, depth, caller,
                    hit, shade, results, arg, tasks >>

NextLoad ==
    \/ Peek \/ LineComment \/ OpenComment \/ BlockComment \/ TokenizerNext
    \/ ParserCall \/ ParserReturn \/ ParserToken \/ DeserializeReturn

SpecLoad == InitLoad /\ [][NextLoad]_vars

\* The program runs on as long as it has a step to take.
FairLoad == SpecLoad /\ WF_vars(NextLoad)


\* C29: Tokenizer.next returns after finitely many steps on every finite
\* text, a text that ends inside a block comment or after a lone '/'
\* included, and deserialize returns.
C29_DeserializeReturns == <>(pc = "done")

\* C30: a block comment is closed by the first "*/" after its "/*", also
\* when asterisks precede it: the loop of the comment does not run past
\* it, and the tokenizer goes on with the character after it.
C30_ClosedByFirstStarSlash ==
    /\ (pc = "comment" /\ arg.fn = "deserialize") =>
           ret.pos <= FirstClosing(arg.text, ret.open)
    /\ (pc \in {"next", "parse", "done"} /\ arg.fn = "deserialize"
            /\ ret.closed # 0) =>
           ret.closed = FirstClosing(arg.text, ret.open) + 2

\* C22: deserialize returns Ok(Scene) only if every class is one the
\* parsers know and every field of every struct is given; a class that is
\* not known gives NoClass, a field that is not known Undefined, and a
\* field left out Missing.
C22_DefectsRejected ==
    (pc = "done" /\ arg.fn = "deserialize") =>
        /\ ret.result = "Ok" => arg.defect = "none"
        /\ arg.defect = "class" => ret.result = "NoClass"
        /\ arg.defect = "field" => ret.result = "Undefined"
        /\ arg.defect = "missing" => ret.result = "Missing"

=============================================================================
